---- MODULE Spec2Model ----
(***************************************************************************)
(* Model of backend/server.py of the Cognitive Emergence Protocol: the     *)
(* valence algebra, the synthesis and transformation handlers and the      *)
(* document store they read and write.                                     *)
(*                                                                         *)
(* Numbers.  Valence dimensions are Python floats.  They are modelled as   *)
(* exact rationals <<n, d>> in lowest terms (d > 0), so that sums, means   *)
(* and clamping are computed exactly; the rounding of float operations is  *)
(* modelled in cosine_similarity only (see the similarity engine).         *)
(* Text.  A content string is a sequence of tokens; concatenation is \o.   *)
(* Identifiers.  uuid4() is modelled by a counter (next_id): every new     *)
(* T-unit gets a fresh natural number.                                     *)
(***************************************************************************)
EXTENDS Integers, Sequences, FiniteSets, TLC

VARIABLES
    t_units,   \* db.t_units: the stored T-unit documents, in insertion order
    events,    \* db.events: the stored audit events, in insertion order
    next_id,   \* the next fresh T-unit id (uuid4)
    embedding_up, \* whether the embedding collaborator answers (environment)
    last,      \* the last request handled: its input, status and response
    call,      \* the pure-function call under test (SpecFn, SpecSimilarity)
    agents,    \* db.agents: the stored agent documents, in insertion order
    inflight   \* the handlers in progress, one per process: where each
               \* stands and what it has read so far

vars == <<t_units, events, next_id, embedding_up, last, call, agents, inflight>>

-----------------------------------------------------------------------------
(* Bounds of the model *)

\* valence dimensions of the pure-function inputs are k/GridSteps, k in 0..GridSteps
GridSteps == 10
\* longest list handed to average_valence in SpecFn
MaxAvgLen == 3
\* most T-units create_t_unit may put into the store
MaxCreated == 2
\* most T-units the store may hold in SpecSynthesis
MaxSynthUnits == 3

-----------------------------------------------------------------------------
(* Exact rational arithmetic, standing for Python float arithmetic *)

Abs(x) == IF x < 0 THEN -x ELSE x

RECURSIVE GCD(_, _)
GCD(a, b) == IF b = 0 THEN a ELSE GCD(b, a % b)

\* the rational n/d (d > 0) in lowest terms
Rat(n, d) == LET g == GCD(Abs(n), d) IN <<n \div g, d \div g>>

RAdd(a, b) == Rat(a[1] * b[2] + b[1] * a[2], a[2] * b[2])
RSub(a, b) == Rat(a[1] * b[2] - b[1] * a[2], a[2] * b[2])
RLess(a, b) == a[1] * b[2] < b[1] * a[2]
RLeq(a, b) == a[1] * b[2] <= b[1] * a[2]
RDivInt(a, k) == Rat(a[1], a[2] * k)
\* Python min(a, b) and max(a, b): the first argument unless the second is
\* strictly smaller (larger)
RMin(a, b) == IF RLess(b, a) THEN b ELSE a
RMax(a, b) == IF RLess(a, b) THEN b ELSE a

R0 == <<0, 1>>
R1 == <<1, 1>>
RHalf == <<1, 2>>
RTenth == <<1, 10>>
RFifth == <<1, 5>>

InUnit(x) == RLeq(R0, x) /\ RLeq(x, R1)

-----------------------------------------------------------------------------
(* Valence (class Valence) and the cognitive algorithms *)

Valence(cu, ce, di) == [curiosity |-> cu, certainty |-> ce, dissonance |-> di]

\* Field(ge=0, le=1) on the three dimensions: what the Valence constructor accepts
ValenceValid(v) == InUnit(v.curiosity) /\ InUnit(v.certainty) /\ InUnit(v.dissonance)

phases == <<"Shattering", "Remembering", "Re-feeling", "Re-centering", "Becoming">>

PhaseNames == {phases[i] : i \in 1..Len(phases)}

\* sum(v.<dim> for v in valences)
RECURSIVE SumDim(_, _)
SumDim(valences, dim) ==
    IF valences = <<>> THEN R0
    ELSE RAdd(SumDim(SubSeq(valences, 1, Len(valences) - 1), dim),
              valences[Len(valences)][dim])

\* A variant without the "if not valences" guard: the empty mean is 0/1
average_valence_no_guard(valences) ==
    LET count == IF valences = <<>> THEN 1 ELSE Len(valences)
    IN  Valence(RDivInt(SumDim(valences, "curiosity"), count),
                RDivInt(SumDim(valences, "certainty"), count),
                RDivInt(SumDim(valences, "dissonance"), count))

\* A variant that returns the totals without dividing by count
average_valence_no_division(valences) ==
    IF valences = <<>> THEN Valence(RHalf, RHalf, RHalf)
    ELSE Valence(SumDim(valences, "curiosity"), SumDim(valences, "certainty"),
                 SumDim(valences, "dissonance"))

\* average_valence: the neutral point for the empty list, else total / count
average_valence(valences) ==
    IF valences = <<>> THEN Valence(RHalf, RHalf, RHalf)
    ELSE LET count == Len(valences)
         IN  Valence(RDivInt(SumDim(valences, "curiosity"), count),
                     RDivInt(SumDim(valences, "certainty"), count),
                     RDivInt(SumDim(valences, "dissonance"), count))

\* A variant that adds and subtracts without min(1.0, .) and max(0.0, .)
apply_transformation_phase_unclamped(valence, phase) ==
    LET nv ==
        IF phase = "Shattering" THEN
            [valence EXCEPT !.dissonance = RAdd(@, RFifth),
                            !.certainty = RSub(@, RTenth)]
        ELSE IF phase = "Remembering" THEN
            [valence EXCEPT !.curiosity = RAdd(@, RFifth)]
        ELSE IF phase = "Re-feeling" THEN
            [valence EXCEPT !.dissonance = RSub(@, RFifth)]
        ELSE IF phase = "Re-centering" THEN
            [valence EXCEPT !.certainty = RAdd(@, RFifth)]
        ELSE IF phase = "Becoming" THEN
            [valence EXCEPT !.certainty = RAdd(@, RFifth),
                            !.dissonance = RSub(@, RTenth)]
        ELSE valence
    IN  [arg |-> valence, ret |-> nv]

\* The function copies its argument into new_valence and assigns to the copy.
\* The result is the pair of the argument as the caller sees it afterwards
\* (arg) and the returned object (ret).
apply_transformation_phase(valence, phase) ==
    LET new_valence == Valence(valence.curiosity, valence.certainty, valence.dissonance)
        nv ==
        IF phase = "Shattering" THEN
            [new_valence EXCEPT !.dissonance = RMin(R1, RAdd(@, RFifth)),
                                !.certainty = RMax(R0, RSub(@, RTenth))]
        ELSE IF phase = "Remembering" THEN
            [new_valence EXCEPT !.curiosity = RMin(R1, RAdd(@, RFifth))]
        ELSE IF phase = "Re-feeling" THEN
            [new_valence EXCEPT !.dissonance = RMax(R0, RSub(@, RFifth))]
        ELSE IF phase = "Re-centering" THEN
            [new_valence EXCEPT !.certainty = RMin(R1, RAdd(@, RFifth))]
        ELSE IF phase = "Becoming" THEN
            [new_valence EXCEPT !.certainty = RMin(R1, RAdd(@, RFifth)),
                                !.dissonance = RMax(R0, RSub(@, RTenth))]
        ELSE new_valence
    IN  [arg |-> valence, ret |-> nv]

NoValence == Valence(R0, R0, R0)

\* The processes that run handlers one step at a time
Procs == {"p", "q"}

\* A process that runs no handler
Idle == [op |-> "idle"]

NoInflight == [p \in Procs |-> Idle]

\* call when no pure function is under test
NoCall == [fn |-> "none", valence |-> NoValence, phase |-> "none",
           valences |-> <<>>, done |-> FALSE,
           arg_after |-> NoValence, ret |-> NoValence]

-----------------------------------------------------------------------------
(* The document store (db.t_units, db.events) *)

\* Optional fields: None is "None" for phase and <<>> for embedding
TUnit(id, content, valence, parents, linkage, phase, agent_id, ai_generated) ==
    [id |-> id, content |-> content, valence |-> valence, parents |-> parents,
     children |-> <<>>, linkage |-> linkage, phase |-> phase,
     agent_id |-> agent_id, ai_generated |-> ai_generated, embedding |-> <<>>]

\* TUnit(content=...) validates content: str; a content that is no string
\* (JSON null) raises pydantic's ValidationError
TUnitContentValid(content_is_str) == content_is_str

StoredIds(store) == {store[i].id : i \in 1..Len(store)}

\* db.t_units.find_one({"id": id}): the first document with that id, if any
Resolves(store, id) == \E i \in 1..Len(store) : store[i].id = id

FindOne(store, id) ==
    store[CHOOSE i \in 1..Len(store) :
            /\ store[i].id = id
            /\ \A j \in 1..(i - 1) : store[j].id # id]

\* A variant that writes the list instead of appending to it ($set)
SetChildren(store, id, child_ids) ==
    IF ~Resolves(store, id) THEN store
    ELSE LET k == CHOOSE i \in 1..Len(store) :
                    /\ store[i].id = id
                    /\ \A j \in 1..(i - 1) : store[j].id # id
         IN  [store EXCEPT ![k].children = child_ids]

\* A variant that appends the unit's own id
PushOwnId(store, id, child_ids) ==
    IF ~Resolves(store, id) THEN store
    ELSE LET k == CHOOSE i \in 1..Len(store) :
                    /\ store[i].id = id
                    /\ \A j \in 1..(i - 1) : store[j].id # id
         IN  [store EXCEPT ![k].children = @ \o <<id>>]

\* db.t_units.update_one({"id": id}, {"$push": {"children": {"$each": child_ids}}}):
\* appends to the first document with that id, does nothing when there is none
PushChildren(store, id, child_ids) ==
    IF ~Resolves(store, id) THEN store
    ELSE LET k == CHOOSE i \in 1..Len(store) :
                    /\ store[i].id = id
                    /\ \A j \in 1..(i - 1) : store[j].id # id
         IN  [store EXCEPT ![k].children = @ \o child_ids]

\* db.<collection>.insert_one(doc)
\* A variant that puts the document in front
InsertInFront(collection, doc) == <<doc>> \o collection

InsertOne(collection, doc) == Append(collection, doc)

-----------------------------------------------------------------------------
(* The collaborators' replies *)

\* openai_client.embeddings.create: returns a vector while the collaborator
\* answers, raises otherwise
EmbeddingReply(up) ==
    IF up THEN [raised |-> FALSE, embedding |-> <<1, 0>>]
    ELSE [raised |-> TRUE, embedding |-> <<>>]

\* generate_embedding: the vector, or None (<<>>) when the call raised
generate_embedding(reply) == IF reply.raised THEN <<>> ELSE reply.embedding

\* with_embedding: `if embedding:` sets the new unit's embedding
WithEmbedding(unit, embedding) ==
    IF embedding # <<>> THEN [unit EXCEPT !.embedding = embedding] ELSE unit

\* openai_client.chat.completions.create: raises (error, timeout), or returns a
\* text.  is_json: the text parses as a JSON object with the keys content and
\* valence, valence being an object of three numbers.  content_is_str: the
\* value of "content" is a JSON string (FALSE: it is null).
AIRaises ==
    [raised |-> TRUE, is_json |-> FALSE, content_is_str |-> FALSE,
     content |-> <<>>, valence |-> NoValence]
AINotJson ==
    [raised |-> FALSE, is_json |-> FALSE, content_is_str |-> FALSE,
     content |-> <<>>, valence |-> NoValence]
AIValenceOutOfRange ==
    [raised |-> FALSE, is_json |-> TRUE, content_is_str |-> TRUE,
     content |-> <<"ai">>, valence |-> Valence(<<3, 2>>, RHalf, RHalf)]
AINullContent ==
    [raised |-> FALSE, is_json |-> TRUE, content_is_str |-> FALSE,
     content |-> <<>>, valence |-> Valence(<<3, 5>>, RHalf, <<2, 5>>)]
AIValid ==
    [raised |-> FALSE, is_json |-> TRUE, content_is_str |-> TRUE,
     content |-> <<"ai">>, valence |-> Valence(<<3, 5>>, RHalf, <<2, 5>>)]

AIReplies == {AIRaises, AINotJson, AIValenceOutOfRange, AINullContent, AIValid}

\* The collaborator's contract: the reply is a JSON object
\* {content: string, valence: {curiosity, certainty, dissonance in [0,1]}}
AIReplyWellFormed(reply) ==
    /\ ~reply.raised
    /\ reply.is_json
    /\ reply.content_is_str
    /\ ValenceValid(reply.valence)

\* A variant of the try block without the validation of the valence
AITrySucceedsUnvalidated(reply) ==
    /\ ~reply.raised
    /\ reply.is_json

\* The try block of ai_synthesize_content and ai_transform_content: the call,
\* json.loads, result["content"], Valence(**result["valence"]).  It raises
\* when the call raises, the text is no such JSON, or Valence rejects a
\* dimension outside [0,1]; result["content"] is returned as it is.
AITrySucceeds(reply) ==
    /\ ~reply.raised
    /\ reply.is_json
    /\ ValenceValid(reply.valence)

-----------------------------------------------------------------------------
(* Fallback content *)

\* ' ⋈ '.join(contents)
RECURSIVE JoinContents(_)
JoinContents(contents) ==
    IF contents = <<>> THEN <<>>
    ELSE IF Len(contents) = 1 THEN contents[1]
    ELSE JoinContents(SubSeq(contents, 1, Len(contents) - 1))
            \o <<" |x| ">> \o contents[Len(contents)]

synthesize_content(contents) == <<"SYNTHESIS: ">> \o JoinContents(contents)

\* str.upper() on the five phase names
Upper(phase) ==
    CASE phase = "Shattering" -> "SHATTERING"
      [] phase = "Remembering" -> "REMEMBERING"
      [] phase = "Re-feeling" -> "RE-FEELING"
      [] phase = "Re-centering" -> "RE-CENTERING"
      [] phase = "Becoming" -> "BECOMING"
      [] OTHER -> phase

generate_transformation_content(original_content, phase, anomaly) ==
    <<Upper(phase), ": ">> \o original_content \o <<" [ANOMALY: ">> \o anomaly \o <<"]">>

\* ai_synthesize_content: (content, content_is_str, valence, from_ai)
ai_synthesize_content(contents, valences, reply) ==
    IF AITrySucceeds(reply)
    THEN [content |-> reply.content, content_is_str |-> reply.content_is_str,
          valence |-> reply.valence, from_ai |-> TRUE]
    ELSE [content |-> synthesize_content(contents), content_is_str |-> TRUE,
          valence |-> average_valence(valences), from_ai |-> FALSE]

\* ai_transform_content
ai_transform_content(original_content, original_valence, phase, anomaly, reply) ==
    IF AITrySucceeds(reply)
    THEN [content |-> reply.content, content_is_str |-> reply.content_is_str,
          valence |-> reply.valence, from_ai |-> TRUE]
    ELSE [content |-> generate_transformation_content(original_content, phase, anomaly),
          content_is_str |-> TRUE,
          valence |-> apply_transformation_phase(original_valence, phase).ret,
          from_ai |-> FALSE]

-----------------------------------------------------------------------------
(* Requests and responses *)

\* last: the request handled last.  status is the HTTP status; result the ids
\* of the units of the response; ai[i] tells, for the i-th unit the handler
\* worked on, whether the generative reply was "wellformed", "malformed" or
\* not asked for ("none").
NoRequest ==
    [op |-> "none", status |-> 0, ids |-> <<>>, use_ai |-> FALSE,
     recalled_ids |-> <<>>, anomaly |-> <<>>, result |-> <<>>, ai |-> <<>>,
     error |-> ""]

AIStatus(use_ai, reply) ==
    IF ~use_ai THEN "none"
    ELSE IF AIReplyWellFormed(reply) THEN "wellformed" ELSE "malformed"

\* An id that no stored unit has
UnknownIds == {0}

\* The bodies of the create requests
CreateRequests ==
    { [content |-> <<"x">>, valence |-> Valence(RHalf, RHalf, RHalf),
       linkage |-> "generative", phase |-> "None", agent_id |-> "agent_alpha"],
      [content |-> <<"y">>, valence |-> Valence(<<9, 10>>, R0, <<19, 20>>),
       linkage |-> "foundational", phase |-> "None", agent_id |-> "agent_beta"] }

\* recalled_ids of a request: the first unit created when the generative
\* mode is asked for, none otherwise
RecalledChoices(use_ai) == IF use_ai THEN {<<1>>} ELSE {<<>>}

-----------------------------------------------------------------------------
(* POST /t-units *)

create_t_unit(req, emb_reply) ==
    LET new_t_unit == TUnit(next_id, req.content, req.valence, <<>>, req.linkage,
                            req.phase, req.agent_id, FALSE)
        stored == WithEmbedding(new_t_unit, generate_embedding(emb_reply))
    IN  /\ t_units' = InsertOne(t_units, stored)
        /\ next_id' = next_id + 1
        /\ last' = [NoRequest EXCEPT !.op = "create_t_unit", !.status = 200,
                                     !.result = <<next_id>>]
        /\ UNCHANGED <<events, embedding_up, call, agents, inflight>>

CreateTUnit ==
    /\ Len(t_units) < MaxCreated
    /\ \E req \in CreateRequests :
          create_t_unit(req, EmbeddingReply(embedding_up))

-----------------------------------------------------------------------------
(* POST /synthesize *)

\* SynthesisRequest.t_unit_ids: Field(min_length=2)
MinLength == 2

\* The documents the ids of the request resolve to, in request order; an id
\* that does not resolve is skipped, an id listed twice resolves twice
RECURSIVE ResolveAll(_, _)
ResolveAll(store, ids) ==
    IF ids = <<>> THEN <<>>
    ELSE LET rest == ResolveAll(store, SubSeq(ids, 1, Len(ids) - 1))
             id == ids[Len(ids)]
         IN  IF Resolves(store, id) THEN Append(rest, FindOne(store, id)) ELSE rest

\* A variant that updates only the first parent's children
PushToFirstParent(store, ids, new_id) ==
    IF ids = <<>> THEN store ELSE PushChildren(store, ids[1], <<new_id>>)

\* for t_unit_id in request.t_unit_ids: update_one(..., {"$push": {"children": new_id}})
RECURSIVE PushToParents(_, _, _)
PushToParents(store, ids, new_id) ==
    IF ids = <<>> THEN store
    ELSE PushChildren(PushToParents(store, SubSeq(ids, 1, Len(ids) - 1), new_id),
                      ids[Len(ids)], <<new_id>>)

\* A variant that takes the ids of the units that resolved
SynthesisParentsResolved(request_ids, resolved) ==
    [i \in 1..Len(resolved) |-> resolved[i].id]

\* parents=request.t_unit_ids
SynthesisParents(request_ids, resolved) == request_ids

\* A variant that takes the agent of the last input unit
SynthesisAgentOfLast(resolved) == resolved[Len(resolved)].agent_id

\* agent_id=t_units[0].agent_id: the agent of the first unit that resolved
SynthesisAgent(resolved) == resolved[1].agent_id

\* if request.use_ai: ... ai_generated = True / else: ... ai_generated = False
SynthesisOutcome(use_ai, contents, valences, ai_reply) ==
    IF use_ai
    THEN [ai_synthesize_content(contents, valences, ai_reply) EXCEPT !.from_ai = TRUE]
    ELSE [content |-> synthesize_content(contents), content_is_str |-> TRUE,
          valence |-> average_valence(valences), from_ai |-> FALSE]

\* raise HTTPException(status, detail), or an exception that escapes the
\* handler (status 500), before the handler has written anything
Rejected(op, status, error) ==
    /\ last' = [NoRequest EXCEPT !.op = op, !.status = status, !.error = error]
    /\ UNCHANGED <<t_units, events, next_id, embedding_up, call, agents, inflight>>

\* The handler as a function of the store and its inputs: the status and,
\* when it is 200, the store and the event it leaves
synthesize_t_units(store, new_id, ids, use_ai, recalled_ids, ai_reply, emb_reply) ==
    LET resolved == ResolveAll(store, ids)
    IN  IF Len(ids) < MinLength THEN
            [status |-> 422, error |-> "t_unit_ids: too short"]
        ELSE IF Len(resolved) < 2 THEN
            [status |-> 400, error |-> "Need at least 2 T-units for synthesis"]
        ELSE
            LET contents == [i \in 1..Len(resolved) |-> resolved[i].content]
                valences == [i \in 1..Len(resolved) |-> resolved[i].valence]
                out == SynthesisOutcome(use_ai, contents, valences, ai_reply)
                ai_generated == out.from_ai
                new_t_unit == WithEmbedding(
                    TUnit(new_id, out.content, out.valence,
                          SynthesisParents(ids, resolved), "generative", "None",
                          SynthesisAgent(resolved), ai_generated),
                    generate_embedding(emb_reply))
                event == [type |-> "synthesis", t_unit_id |-> new_t_unit.id,
                          metadata |-> [parent_ids |-> ids,
                                        ai_generated |-> ai_generated,
                                        memory_influenced |-> Len(recalled_ids) > 0,
                                        recalled_count |-> Len(recalled_ids),
                                        recalled_ids |-> recalled_ids],
                          agent_id |-> SynthesisAgent(resolved)]
            IN  IF ~TUnitContentValid(out.content_is_str) THEN
                    [status |-> 500, error |-> "ValidationError: content is not a string"]
                ELSE
                    [status |-> 200, error |-> "",
                     t_units |-> InsertOne(PushToParents(store, ids, new_t_unit.id),
                                           new_t_unit),
                     event |-> event,
                     new_t_unit |-> new_t_unit]

\* t_unit_ids of a request: one id, any pair, or a triple with an unknown id
\* in the middle or in front, over the stored ids and an unknown id
SynthesisIdLists ==
    LET known == StoredIds(t_units)
        any == known \cup UnknownIds
    IN  {<<a>> : a \in any}
        \cup {<<a, b>> : a \in any, b \in any}
        \cup {<<a, u, b>> : a \in known, u \in UnknownIds, b \in known}
        \cup {<<u, p[1], p[2]>> :
                 u \in UnknownIds, p \in {q \in known \X known : q[1] # q[2]}}

\* The generative collaborator is asked only when the request is accepted
\* and use_ai is set; its reply is drawn then
SynthesisReplies(ids, use_ai) ==
    IF use_ai /\ Len(ids) >= MinLength /\ Len(ResolveAll(t_units, ids)) >= 2
    THEN AIReplies ELSE {AIValid}

Synthesize ==
    /\ Len(t_units) < MaxSynthUnits
    /\ \E ids \in SynthesisIdLists, use_ai \in BOOLEAN :
       \E ai_reply \in SynthesisReplies(ids, use_ai),
          recalled_ids \in RecalledChoices(use_ai) :
       \E r \in {synthesize_t_units(t_units, next_id, ids, use_ai, recalled_ids,
                                    ai_reply, EmbeddingReply(embedding_up))} :
          IF r.status # 200 THEN Rejected("synthesize", r.status, r.error)
          ELSE
              /\ t_units' = r.t_units
              /\ events' = InsertOne(events, r.event)
              /\ next_id' = next_id + 1
              /\ last' = [NoRequest EXCEPT !.op = "synthesize", !.status = 200,
                             !.ids = ids, !.use_ai = use_ai,
                             !.recalled_ids = recalled_ids,
                             !.result = <<r.new_t_unit.id>>,
                             !.ai = <<AIStatus(use_ai, ai_reply)>>]
              /\ UNCHANGED <<embedding_up, call, agents, inflight>>

-----------------------------------------------------------------------------
(* POST /transform *)

\* A variant that chains the phases: each transforms the previous output
TransformSourceChained(original_t_unit, new_t_units) ==
    IF new_t_units = <<>> THEN original_t_unit ELSE new_t_units[Len(new_t_units)]

\* The unit whose content and valence every phase transforms:
\* original_t_unit, whatever the earlier phases produced
TransformSource(original_t_unit, new_t_units) == original_t_unit

\* if request.use_ai: ... ai_generated = True / else: ... ai_generated = False
TransformOutcome(use_ai, source, phase, anomaly, ai_reply) ==
    IF use_ai
    THEN [ai_transform_content(source.content, source.valence, phase, anomaly, ai_reply)
             EXCEPT !.from_ai = TRUE]
    ELSE [content |-> generate_transformation_content(source.content, phase, anomaly),
          content_is_str |-> TRUE,
          valence |-> apply_transformation_phase(source.valence, phase).ret,
          from_ai |-> FALSE]

\* One iteration of `for phase in phases`, the n-th, from the handler's
\* state `before` it: the store, the events, new_t_units and the status.
\* Once TUnit(...) has raised the status is 500 and no iteration runs.
TransformPhase(before, n, new_id, original_t_unit, t_unit_id, anomaly, use_ai, recalled_ids, io) ==
    IF before.status # 200 THEN before
    ELSE
      LET phase == phases[n]
          source == TransformSource(original_t_unit, before.new_t_units)
          out == TransformOutcome(use_ai, source, phase, anomaly, io.ai[n])
          ai_generated == out.from_ai
          phase_t_unit == WithEmbedding(
              TUnit(new_id + (n - 1), out.content, out.valence, <<t_unit_id>>,
                    "transformational", phase, original_t_unit.agent_id,
                    ai_generated),
              generate_embedding(io.embedding))
          event == [type |-> "transformation", t_unit_id |-> phase_t_unit.id,
                    metadata |-> [phase |-> phase, parent_id |-> t_unit_id,
                                  anomaly |-> anomaly,
                                  ai_generated |-> ai_generated,
                                  memory_influenced |-> Len(recalled_ids) > 0,
                                  recalled_count |-> Len(recalled_ids),
                                  recalled_ids |-> recalled_ids],
                    agent_id |-> original_t_unit.agent_id]
          ai == Append(before.ai, AIStatus(use_ai, io.ai[n]))
      IN  IF ~TUnitContentValid(out.content_is_str) THEN
              [before EXCEPT !.status = 500,
                             !.error = "ValidationError: content is not a string",
                             !.ai = ai]
          ELSE
              [before EXCEPT
                  !.t_units = InsertOne(@, phase_t_unit),
                  !.events = InsertOne(@, event),
                  !.new_t_units = Append(@, phase_t_unit),
                  !.ai = ai]

\* The handler's state after the first n iterations of the loop
RECURSIVE TransformLoop(_, _, _, _, _, _, _, _, _, _)
TransformLoop(n, store, evs, new_id, original_t_unit, t_unit_id, anomaly, use_ai, recalled_ids, io) ==
    IF n = 0 THEN
        [status |-> 200, error |-> "", t_units |-> store, events |-> evs,
         new_t_units |-> <<>>, ai |-> <<>>]
    ELSE
        TransformPhase(
            TransformLoop(n - 1, store, evs, new_id, original_t_unit, t_unit_id,
                          anomaly, use_ai, recalled_ids, io),
            n, new_id, original_t_unit, t_unit_id, anomaly, use_ai, recalled_ids, io)

\* A variant that leaves the last phase unit out of the batch
ChildIdsButLast(new_t_units) ==
    [i \in 1..(Len(new_t_units) - 1) |-> new_t_units[i].id]

\* child_ids = [t.id for t in new_t_units]
ChildIds(new_t_units) == [i \in 1..Len(new_t_units) |-> new_t_units[i].id]

\* The handler as a function of the store and its inputs.  io: the replies
\* of the collaborators, io.ai[n] to the generative call of phase n.
transform_t_unit(store, evs, new_id, t_unit_id, anomaly, use_ai, recalled_ids, io) ==
    IF ~Resolves(store, t_unit_id) THEN
        [status |-> 404, error |-> "T-unit not found", t_units |-> store,
         events |-> evs, new_t_units |-> <<>>, ai |-> <<>>]
    ELSE
        LET original_t_unit == FindOne(store, t_unit_id)
            loop == TransformLoop(Len(phases), store, evs, new_id, original_t_unit,
                                  t_unit_id, anomaly, use_ai, recalled_ids, io)
            child_ids == ChildIds(loop.new_t_units)
        IN  IF loop.status # 200 THEN loop
            ELSE [loop EXCEPT !.t_units = PushChildren(@, t_unit_id, child_ids)]

\* The anomaly strings of the requests
Anomalies == {<<"anomaly">>}

\* The ways the generative call fails inside the try block
AIFailures == {AIRaises, AINotJson, AIValenceOutOfRange}

\* The generative collaborator is asked only when the unit resolves and
\* use_ai is set; its five replies are drawn then.  Each reply is well formed,
\* has a null content, or fails; the calls of one request that fail inside
\* the try block fail the same way.
TransformReplies(t_unit_id, use_ai) ==
    IF use_ai /\ Resolves(t_units, t_unit_id)
    THEN UNION { [1..Len(phases) -> {failure, AINullContent, AIValid}] :
                    failure \in AIFailures }
    ELSE {[n \in 1..Len(phases) |-> AIValid]}

\* Transform runs on stores that hold no phase unit yet, so that a behaviour
\* persists the units of at most one transformation
Transform ==
    /\ \A i \in 1..Len(t_units) : t_units[i].phase = "None"
    /\ \E t_unit_id \in StoredIds(t_units) \cup UnknownIds, use_ai \in BOOLEAN,
          anomaly \in Anomalies :
       \E ai_replies \in TransformReplies(t_unit_id, use_ai),
          recalled_ids \in RecalledChoices(use_ai) :
       \E r \in {transform_t_unit(t_units, events, next_id, t_unit_id, anomaly, use_ai,
                                  recalled_ids,
                                  [ai |-> ai_replies,
                                   embedding |-> EmbeddingReply(embedding_up)])} :
          IF r.status = 404 THEN Rejected("transform", r.status, r.error)
          ELSE
              /\ t_units' = r.t_units
              /\ events' = r.events
              /\ next_id' = next_id + Len(t_units') - Len(t_units)
              /\ last' = [NoRequest EXCEPT
                             !.op = "transform", !.status = r.status,
                             !.error = r.error,
                             !.ids = <<t_unit_id>>, !.use_ai = use_ai,
                             !.anomaly = anomaly, !.recalled_ids = recalled_ids,
                             !.result = IF r.status = 200
                                        THEN [i \in 1..Len(r.new_t_units) |->
                                                 r.new_t_units[i].id]
                                        ELSE <<>>,
                             !.ai = r.ai]
              /\ UNCHANGED <<embedding_up, call, agents, inflight>>

-----------------------------------------------------------------------------
(* The store specifications, on an initially empty store: SpecSynthesis    *)
(* (create_t_unit and synthesize) and SpecTransform (create_t_unit and      *)
(* transform)                                                              *)

Init ==
    /\ t_units = <<>>
    /\ events = <<>>
    /\ next_id = 1
    /\ embedding_up \in BOOLEAN
    /\ last = NoRequest
    /\ agents = <<>>
    /\ inflight = NoInflight
    /\ call = NoCall

SynthesisNext == CreateTUnit \/ Synthesize

SpecSynthesis == Init /\ [][SynthesisNext]_vars

TransformNext == CreateTUnit \/ Transform

SpecTransform == Init /\ [][TransformNext]_vars

-----------------------------------------------------------------------------
(* SpecFn: the pure functions, applied to inputs drawn by FnInit *)

GridValues == {Rat(k, GridSteps) : k \in 0..GridSteps}

GridValences == {Valence(a, b, c) : a \in GridValues, b \in GridValues, c \in GridValues}

\* the valences lists are built from: the corners, the neutral point and two
\* of the sample T-units' valences
AvgValences ==
    { Valence(R0, R0, R0), Valence(R1, R1, R1), Valence(RHalf, RHalf, RHalf),
      Valence(<<4, 5>>, <<3, 10>>, <<3, 5>>), Valence(<<9, 10>>, <<7, 10>>, <<1, 10>>) }

SeqsUpTo(S, n) == UNION {[1..k -> S] : k \in 0..n}

FnInit ==
    /\ t_units = <<>>
    /\ events = <<>>
    /\ next_id = 1
    /\ embedding_up = TRUE
    /\ last = NoRequest
    /\ agents = <<>>
    /\ inflight = NoInflight
    /\ \/ \E v \in GridValences, p \in PhaseNames \cup {"Other"} :
            call = [NoCall EXCEPT !.fn = "apply_transformation_phase",
                                  !.valence = v, !.phase = p]
       \/ \E vs \in SeqsUpTo(AvgValences, MaxAvgLen) :
            call = [NoCall EXCEPT !.fn = "average_valence", !.valences = vs]

CallApplyTransformationPhase ==
    /\ call.fn = "apply_transformation_phase"
    /\ ~call.done
    /\ LET r == apply_transformation_phase(call.valence, call.phase)
       IN  call' = [call EXCEPT !.done = TRUE, !.arg_after = r.arg, !.ret = r.ret]
    /\ UNCHANGED <<t_units, events, next_id, embedding_up, last, agents, inflight>>

CallAverageValence ==
    /\ call.fn = "average_valence"
    /\ ~call.done
    /\ call' = [call EXCEPT !.done = TRUE, !.ret = average_valence(call.valences)]
    /\ UNCHANGED <<t_units, events, next_id, embedding_up, last, agents, inflight>>

FnNext == CallApplyTransformationPhase \/ CallAverageValence

SpecFn == FnInit /\ [][FnNext]_vars

-----------------------------------------------------------------------------
(* The similarity engine: cosine_similarity and valence_similarity.         *)
(*                                                                         *)
(* cosine_similarity divides a dot product by a product of square roots,   *)
(* and whether the quotient of a vector with itself is 1 depends on the    *)
(* rounding of each operation.  Its operations are therefore IEEE 754      *)
(* operations: the exact result rounded to the nearest float, ties to the  *)
(* even mantissa.  A float has a mantissa of MantissaBits bits (53 in a     *)
(* Python float) and an unbounded exponent.                                *)

\* longest vector handed to cosine_similarity in SpecSimilarity
MaxVectorLen == 2
\* bits of the mantissa of a float
MantissaBits == 5

RMul(a, b) == Rat(a[1] * b[1], a[2] * b[2])

\* a / b, b # 0
RDiv(a, b) ==
    IF b[1] < 0 THEN Rat(-(a[1] * b[2]), a[2] * (-b[1]))
    ELSE Rat(a[1] * b[2], a[2] * b[1])

RECURSIVE Pow2(_)
Pow2(k) == IF k = 0 THEN 1 ELSE 2 * Pow2(k - 1)

\* num/den scaled by powers of two into [2^(MantissaBits-1), 2^MantissaBits):
\* <<num', den', up, down>> with num'/den' = (num/den) * up / down
RECURSIVE FNormalize(_, _, _, _)
FNormalize(num, den, up, down) ==
    IF num >= Pow2(MantissaBits) * den THEN FNormalize(num, 2 * den, up, 2 * down)
    ELSE IF num < Pow2(MantissaBits - 1) * den THEN FNormalize(2 * num, den, 2 * up, down)
    ELSE <<num, den, up, down>>

\* the float nearest to the rational q, ties to even
FRound(q) ==
    IF q[1] = 0 THEN R0
    ELSE LET t == FNormalize(Abs(q[1]), q[2], 1, 1)
             floor == t[1] \div t[2]
             rem == t[1] % t[2]
             m == IF 2 * rem > t[2] THEN floor + 1
                  ELSE IF 2 * rem < t[2] THEN floor
                  ELSE IF floor % 2 = 0 THEN floor ELSE floor + 1
         IN  Rat((IF q[1] < 0 THEN -m ELSE m) * t[4], t[3])

\* float addition, multiplication and division
FAdd(a, b) == FRound(RAdd(a, b))
FMul(a, b) == FRound(RMul(a, b))
FDiv(a, b) == FRound(RDiv(a, b))

\* num/den scaled by powers of four into [4^(MantissaBits-1), 4^MantissaBits):
\* <<num', den', up, down>> with num'/den' = (num/den) * up^2 / down^2
RECURSIVE FSqrtNormalize(_, _, _, _)
FSqrtNormalize(num, den, up, down) ==
    IF num >= Pow2(2 * MantissaBits) * den
    THEN FSqrtNormalize(num, 4 * den, up, 2 * down)
    ELSE IF num < Pow2(2 * MantissaBits - 2) * den
    THEN FSqrtNormalize(4 * num, den, 2 * up, down)
    ELSE <<num, den, up, down>>

\* the float nearest to the square root of the rational q >= 0
FSqrt(q) ==
    IF q[1] = 0 THEN R0
    ELSE LET t == FSqrtNormalize(q[1], q[2], 1, 1)
             floor == CHOOSE k \in Pow2(MantissaBits - 1)..(Pow2(MantissaBits) - 1) :
                          /\ k * k * t[2] <= t[1]
                          /\ (k + 1) * (k + 1) * t[2] > t[1]
             half == (4 * floor * floor + 4 * floor + 1) * t[2]
             m == IF 4 * t[1] > half THEN floor + 1
                  ELSE IF 4 * t[1] < half THEN floor
                  ELSE IF floor % 2 = 0 THEN floor ELSE floor + 1
         IN  Rat(m * t[4], t[3])

\* np.array(a): the components as floats
Float(c) == FRound(<<c, 1>>)

\* np.dot(a_np, b_np) on two vectors of one length
RECURSIVE Dot(_, _)
Dot(a, b) ==
    IF a = <<>> THEN R0
    ELSE FAdd(Dot(SubSeq(a, 1, Len(a) - 1), SubSeq(b, 1, Len(b) - 1)),
              FMul(Float(a[Len(a)]), Float(b[Len(b)])))

\* np.linalg.norm(a_np): sqrt(dot(a, a))
Norm(a) == FSqrt(Dot(a, a))

\* cosine_similarity: 0.0 for an empty vector, for two lengths and for a zero
\* norm, else dot_product / (norm_a * norm_b)
cosine_similarity(a, b) ==
    IF a = <<>> \/ b = <<>> \/ Len(a) # Len(b) THEN R0
    ELSE LET dot_product == Dot(a, b)
             norm_a == Norm(a)
             norm_b == Norm(b)
         IN  IF norm_a = R0 \/ norm_b = R0 THEN R0
             ELSE FDiv(dot_product, FMul(norm_a, norm_b))

\* abs(x - y) on floats
RAbsDiff(x, y) == IF RLess(x, y) THEN RSub(y, x) ELSE RSub(x, y)

\* valence_similarity: max(0.0, 1.0 - distance / 3.0), distance the L1 distance
valence_similarity(v1, v2) ==
    LET distance == RAdd(RAdd(RAbsDiff(v1.curiosity, v2.curiosity),
                              RAbsDiff(v1.certainty, v2.certainty)),
                         RAbsDiff(v1.dissonance, v2.dissonance))
    IN  RMax(R0, RSub(R1, RDivInt(distance, 3)))

\* the components of the vectors
VectorComponents == {-3, 0, 1, 3, 4}

\* the vectors of at most n components
VectorsUpTo(n) == SeqsUpTo(VectorComponents, n)

SimilarityInit ==
    /\ t_units = <<>>
    /\ events = <<>>
    /\ next_id = 1
    /\ embedding_up = TRUE
    /\ last = NoRequest
    /\ agents = <<>>
    /\ inflight = NoInflight
    /\ \/ \E a \in VectorsUpTo(MaxVectorLen), b \in VectorsUpTo(MaxVectorLen) :
            call = [fn |-> "cosine_similarity", a |-> a, b |-> b,
                    done |-> FALSE, ret |-> R0]
       \/ \E v1 \in AvgValences, v2 \in AvgValences :
            call = [fn |-> "valence_similarity", a |-> v1, b |-> v2,
                    done |-> FALSE, ret |-> R0]

CallCosineSimilarity ==
    /\ call.fn = "cosine_similarity"
    /\ ~call.done
    /\ call' = [call EXCEPT !.done = TRUE, !.ret = cosine_similarity(call.a, call.b)]
    /\ UNCHANGED <<t_units, events, next_id, embedding_up, last, agents, inflight>>

CallValenceSimilarity ==
    /\ call.fn = "valence_similarity"
    /\ ~call.done
    /\ call' = [call EXCEPT !.done = TRUE, !.ret = valence_similarity(call.a, call.b)]
    /\ UNCHANGED <<t_units, events, next_id, embedding_up, last, agents, inflight>>

SimilarityNext == CallCosineSimilarity \/ CallValenceSimilarity

SpecSimilarity == SimilarityInit /\ [][SimilarityNext]_vars

-----------------------------------------------------------------------------
(* POST /agents and DELETE /agents/{agent_id} *)

\* most agent documents db.agents may hold
MaxAgents == 2

\* class AgentInfo, with the id the client sends
AgentInfo(id) == [id |-> id, name |-> id, active |-> TRUE]

\* The ids of the agents: those the T-units of CreateRequests name
AgentIds == {req.agent_id : req \in CreateRequests}

\* create_agent: db.agents.insert_one(agent.dict())
create_agent(docs, agent) == InsertOne(docs, agent)

CreateAgent ==
    /\ Len(agents) < MaxAgents
    /\ \E id \in AgentIds :
          /\ agents' = create_agent(agents, AgentInfo(id))
          /\ last' = [NoRequest EXCEPT !.op = "create_agent", !.status = 200,
                                       !.ids = <<id>>]
    /\ UNCHANGED <<t_units, events, next_id, embedding_up, call, inflight>>

\* db.t_units.count_documents({"agent_id": agent_id})
CountDocuments(store, agent_id) ==
    Cardinality({i \in 1..Len(store) : store[i].agent_id = agent_id})

\* db.agents.delete_one({"id": agent_id}): removes the first document with
\* that id; deleted_count is 0 when there is none
DeleteOne(docs, agent_id) ==
    IF \A i \in 1..Len(docs) : docs[i].id # agent_id
    THEN [deleted_count |-> 0, docs |-> docs]
    ELSE LET k == CHOOSE i \in 1..Len(docs) :
                    /\ docs[i].id = agent_id
                    /\ \A j \in 1..(i - 1) : docs[j].id # agent_id
         IN  [deleted_count |-> 1,
              docs |-> SubSeq(docs, 1, k - 1) \o SubSeq(docs, k + 1, Len(docs))]

\* A variant that deletes without counting the agent's T-units
delete_agent_unguarded(store, docs, agent_id) ==
    LET result == DeleteOne(docs, agent_id)
    IN  IF result.deleted_count = 0
        THEN [status |-> 404, error |-> "Agent not found", agents |-> docs]
        ELSE [status |-> 200, error |-> "", agents |-> result.docs]

\* A variant that deletes the document before it counts the agent's T-units
delete_agent_deleting_first(store, docs, agent_id) ==
    LET t_unit_count == CountDocuments(store, agent_id)
        result == DeleteOne(docs, agent_id)
    IN  IF t_unit_count > 0
        THEN [status |-> 400, error |-> "Cannot delete agent: has associated thoughts",
              agents |-> result.docs]
        ELSE IF result.deleted_count = 0
        THEN [status |-> 404, error |-> "Agent not found", agents |-> docs]
        ELSE [status |-> 200, error |-> "", agents |-> result.docs]

\* delete_agent: 400 while T-units name the agent, 404 when no agent document
\* has the id, else the document is deleted
delete_agent(store, docs, agent_id) ==
    LET t_unit_count == CountDocuments(store, agent_id)
        result == DeleteOne(docs, agent_id)
    IN  IF t_unit_count > 0
        THEN [status |-> 400, error |-> "Cannot delete agent: has associated thoughts",
              agents |-> docs]
        ELSE IF result.deleted_count = 0
        THEN [status |-> 404, error |-> "Agent not found", agents |-> docs]
        ELSE [status |-> 200, error |-> "", agents |-> result.docs]

DeleteAgent ==
    \E agent_id \in AgentIds :
    \E r \in {delete_agent(t_units, agents, agent_id)} :
        /\ agents' = r.agents
        /\ last' = [NoRequest EXCEPT !.op = "delete_agent", !.status = r.status,
                                     !.error = r.error, !.ids = <<agent_id>>]
        /\ UNCHANGED <<t_units, events, next_id, embedding_up, call, inflight>>

AgentsNext == CreateTUnit \/ CreateAgent \/ DeleteAgent

SpecAgents == Init /\ [][AgentsNext]_vars

-----------------------------------------------------------------------------
(* POST /transform, one database operation at a time.  The handler awaits   *)
(* find_one, then per phase insert_one on db.t_units and insert_one on      *)
(* db.events, then update_one on the original; other handlers run between   *)
(* its awaits, and the process may die at any of them.                      *)

\* most transformations that may be begun in SpecTransformSteps
MaxTransformations == 1

\* The processes that run transform one step at a time
TransformProcs == {"p"}

\* The transformations in progress that have stored no unit yet
NotYetStoring ==
    {p \in Procs : inflight[p].op = "transform" /\ inflight[p].new_t_units = <<>>}

\* The transformations that have stored their first unit
Begun == {i \in 1..Len(t_units) : t_units[i].phase = phases[1]}

\* The stored units that are no phase units, which the requests name
Originals == {t_units[i].id : i \in {j \in 1..Len(t_units) : t_units[j].phase = "None"}}

\* The generative collaborator's replies to one request: to each call the
\* reply of the request (ai_reply, which is well formed) or a null content
StepReplies(t_unit_id, use_ai) == {AIValid}

\* find_one: 404, or the handler holds original_t_unit and enters the loop
TransformBegin(p) ==
    /\ inflight[p] = Idle
    /\ Cardinality(Begun) + Cardinality(NotYetStoring) < MaxTransformations
    /\ \E t_unit_id \in Originals \cup UnknownIds, use_ai \in BOOLEAN,
          anomaly \in Anomalies :
       \E recalled_ids \in RecalledChoices(use_ai),
          ai_reply \in StepReplies(t_unit_id, use_ai) :
          IF ~Resolves(t_units, t_unit_id)
          THEN Rejected("transform", 404, "T-unit not found")
          ELSE /\ inflight' = [inflight EXCEPT ![p] =
                      [op |-> "transform", pc |-> "unit", n |-> 1,
                       t_unit_id |-> t_unit_id,
                       original_t_unit |-> FindOne(t_units, t_unit_id),
                       anomaly |-> anomaly, use_ai |-> use_ai,
                       recalled_ids |-> recalled_ids,
                       ai_reply |-> ai_reply,
                       new_t_units |-> <<>>, ai |-> <<>>, event |-> <<>>]]
               /\ UNCHANGED <<t_units, events, next_id, embedding_up, last, call, agents>>

\* The n-th iteration up to `await db.t_units.insert_one(phase_t_unit.dict())`:
\* the generative call, TUnit(...), the embedding, the insert.  When TUnit(...)
\* raises the handler ends with status 500.
TransformInsertUnit(p) ==
    /\ inflight[p].op = "transform"
    /\ inflight[p].pc = "unit"
    /\ LET f == inflight[p]
       IN  \E ai_reply \in IF f.use_ai THEN {f.ai_reply, AINullContent} ELSE {AIValid} :
           \E r \in {TransformPhase(
                        [status |-> 200, error |-> "", t_units |-> t_units,
                         events |-> events, new_t_units |-> f.new_t_units,
                         ai |-> f.ai],
                        f.n, next_id - (f.n - 1), f.original_t_unit, f.t_unit_id,
                        f.anomaly, f.use_ai, f.recalled_ids,
                        [ai |-> [k \in 1..Len(phases) |-> ai_reply],
                         embedding |-> EmbeddingReply(embedding_up)])} :
              IF r.status # 200
              THEN /\ inflight' = [inflight EXCEPT ![p] = Idle]
                   /\ last' = [NoRequest EXCEPT
                                  !.op = "transform", !.status = r.status,
                                  !.error = r.error, !.ids = <<f.t_unit_id>>,
                                  !.use_ai = f.use_ai, !.anomaly = f.anomaly,
                                  !.recalled_ids = f.recalled_ids, !.ai = r.ai]
                   /\ UNCHANGED <<t_units, events, next_id, embedding_up, call, agents>>
              ELSE /\ t_units' = r.t_units
                   /\ next_id' = next_id + 1
                   /\ inflight' = [inflight EXCEPT ![p] =
                          [f EXCEPT !.pc = "event", !.new_t_units = r.new_t_units,
                                    !.ai = r.ai,
                                    !.event = <<r.events[Len(r.events)]>>]]
                   /\ UNCHANGED <<events, embedding_up, last, call, agents>>

\* `await db.events.insert_one(event.dict())`, the end of the n-th iteration
TransformInsertEvent(p) ==
    /\ inflight[p].op = "transform"
    /\ inflight[p].pc = "event"
    /\ LET f == inflight[p]
       IN  /\ events' = InsertOne(events, f.event[1])
           /\ inflight' = [inflight EXCEPT ![p] =
                  [f EXCEPT !.pc = IF f.n = Len(phases) THEN "children" ELSE "unit",
                            !.n = IF f.n = Len(phases) THEN f.n ELSE f.n + 1,
                            !.event = <<>>]]
    /\ UNCHANGED <<t_units, next_id, embedding_up, last, call, agents>>

\* After the loop: the batch update of the original's children, and the response
TransformPushChildren(p) ==
    /\ inflight[p].op = "transform"
    /\ inflight[p].pc = "children"
    /\ LET f == inflight[p]
           child_ids == ChildIds(f.new_t_units)
       IN  /\ t_units' = PushChildren(t_units, f.t_unit_id, child_ids)
           /\ last' = [NoRequest EXCEPT
                          !.op = "transform", !.status = 200,
                          !.ids = <<f.t_unit_id>>, !.use_ai = f.use_ai,
                          !.anomaly = f.anomaly, !.recalled_ids = f.recalled_ids,
                          !.result = ChildIds(f.new_t_units), !.ai = f.ai]
           /\ inflight' = [inflight EXCEPT ![p] = Idle]
    /\ UNCHANGED <<events, next_id, embedding_up, call, agents>>

\* The process dies at an await: the handler never resumes, what it wrote stays
Crash(p) ==
    /\ inflight[p] # Idle
    /\ inflight' = [inflight EXCEPT ![p] = Idle]
    /\ last' = [NoRequest EXCEPT !.op = "crash", !.status = 500]
    /\ UNCHANGED <<t_units, events, next_id, embedding_up, call, agents>>

\* Units are created while no transformation is in progress
TransformStepsNext ==
    \/ (\A p \in TransformProcs : inflight[p] = Idle) /\ CreateTUnit
    \/ \E p \in TransformProcs :
          \/ TransformBegin(p)
          \/ TransformInsertUnit(p)
          \/ TransformInsertEvent(p)
          \/ TransformPushChildren(p)
          \/ Crash(p)

SpecTransformSteps == Init /\ [][TransformStepsNext]_vars

-----------------------------------------------------------------------------
(* POST /memory/suggest: suggest_memories, find_memory_suggestions and      *)
(* get_or_create_embedding.  The handler is a sequence of steps, one per    *)
(* unit whose embedding it gets; h is the handler's own state: its request, *)
(* the documents it has read (snapshots) and the suggestions so far.        *)

\* most T-units the store may hold in SpecMemory
MaxMemoryUnits == 3

\* The vectors the embedding collaborator may return for a text
EmbeddingVectors == {<<1, 0>>, <<3, 4>>}

\* openai_client.embeddings.create, any text: one of the vectors while the
\* collaborator answers, an exception otherwise
EmbeddingReplies(up) ==
    IF up THEN {[raised |-> FALSE, embedding |-> v] : v \in EmbeddingVectors}
    ELSE {[raised |-> TRUE, embedding |-> <<>>]}

\* db.t_units.update_one({"id": id}, {"$set": {"embedding": embedding, ...}})
SetEmbedding(store, id, embedding) ==
    IF ~Resolves(store, id) THEN store
    ELSE LET k == CHOOSE i \in 1..Len(store) :
                    /\ store[i].id = id
                    /\ \A j \in 1..(i - 1) : store[j].id # id
         IN  [store EXCEPT ![k].embedding = embedding]

\* get_or_create_embedding(t_unit), t_unit being the document the handler
\* read earlier: its embedding if it has one; else generate_embedding and,
\* if that returned a vector, update_one on the stored document
get_or_create_embedding(store, t_unit, reply) ==
    LET embedding == generate_embedding(reply)
    IN  IF t_unit.embedding # <<>>
        THEN [embedding |-> t_unit.embedding, t_units |-> store, generated |-> FALSE]
        ELSE IF embedding # <<>>
        THEN [embedding |-> embedding,
              t_units |-> SetEmbedding(store, t_unit.id, embedding),
              generated |-> TRUE]
        ELSE [embedding |-> <<>>, t_units |-> store, generated |-> FALSE]

\* A variant of the query that does not exclude the target
CandidatesWithTarget(store, target_id, agent_id, include_cross_agent) ==
    SelectSeq(store, LAMBDA doc : include_cross_agent \/ doc.agent_id = agent_id)

\* A variant of the query that never filters by agent
CandidatesAnyAgent(store, target_id, agent_id, include_cross_agent) ==
    SelectSeq(store, LAMBDA doc : doc.id # target_id)

\* db.t_units.find(query): the documents with id # target id and, unless
\* include_cross_agent, agent_id = the request's agent_id, in store order
Candidates(store, target_id, agent_id, include_cross_agent) ==
    SelectSeq(store, LAMBDA doc :
        /\ doc.id # target_id
        /\ (include_cross_agent \/ doc.agent_id = agent_id))

\* cosine_similarity on the collaborator's vectors, evaluated once
Similarities ==
    [a \in EmbeddingVectors, b \in EmbeddingVectors |-> cosine_similarity(a, b)]

\* MemorySuggestion(...) for one candidate
MemorySuggestion(target_t_unit, target_embedding, candidate, candidate_embedding, valence_weight) ==
    LET semantic_sim == Similarities[target_embedding, candidate_embedding]
        valence_sim == valence_similarity(target_t_unit.valence, candidate.valence)
        final_score == RAdd(RMul(semantic_sim, RSub(R1, valence_weight)),
                            RMul(valence_sim, valence_weight))
    IN  [id |-> candidate.id, content |-> candidate.content,
         similarity |-> semantic_sim, valence_score |-> valence_sim,
         final_score |-> final_score, agent_id |-> candidate.agent_id,
         valence |-> candidate.valence]

\* x put into a list sorted by final_score descending, behind the entries
\* that score as much or more
InsertByScore(sorted, x) ==
    LET ahead == {i \in 1..Len(sorted) : RLeq(x.final_score, sorted[i].final_score)}
        n == Cardinality(ahead)
    IN  SubSeq(sorted, 1, n) \o <<x>> \o SubSeq(sorted, n + 1, Len(sorted))

\* A variant that sorts ascending
RECURSIVE SortAscending(_)
SortAscending(suggestions) ==
    IF suggestions = <<>> THEN <<>>
    ELSE LET x == suggestions[Len(suggestions)]
             sorted == SortAscending(SubSeq(suggestions, 1, Len(suggestions) - 1))
             ahead == {i \in 1..Len(sorted) : RLeq(sorted[i].final_score, x.final_score)}
             n == Cardinality(ahead)
         IN  SubSeq(sorted, 1, n) \o <<x>> \o SubSeq(sorted, n + 1, Len(sorted))

\* suggestions.sort(key=lambda x: x.final_score, reverse=True): a stable sort
RECURSIVE SortByScore(_)
SortByScore(suggestions) ==
    IF suggestions = <<>> THEN <<>>
    ELSE InsertByScore(SortByScore(SubSeq(suggestions, 1, Len(suggestions) - 1)),
                       suggestions[Len(suggestions)])

\* suggestions[:limit]
Truncate(suggestions, limit) ==
    SubSeq(suggestions, 1, IF limit < Len(suggestions) THEN limit ELSE Len(suggestions))

\* MemorySuggestRequest.limit, two of its values (ge=1, le=50)
MemoryLimits == {1, 2}

\* MemorySuggestRequest.valence_weight: the default
ValenceWeights == {<<1, 4>>}

\* The bodies of the memory-suggestion requests for a store
SuggestRequests(store) ==
    [agent_id : AgentIds, t_unit_id : StoredIds(store) \cup UnknownIds,
     limit : MemoryLimits, include_cross_agent : BOOLEAN,
     valence_weight : ValenceWeights]

\* suggest_memories after find_one found the target: the handler's state
SuggestStart(store, req) ==
    [op |-> "suggest", pc |-> "target", request |-> req,
     target_t_unit |-> FindOne(store, req.t_unit_id), target_embedding |-> <<>>,
     candidates |-> <<>>, k |-> 1, suggestions |-> <<>>, generated |-> <<>>]

\* find_memory_suggestions, its first lines: the target's embedding, or the
\* empty list when there is none
SuggestTarget(h, store, reply) ==
    LET r == get_or_create_embedding(store, h.target_t_unit, reply)
    IN  [h |-> [h EXCEPT !.pc = IF r.embedding = <<>> THEN "event" ELSE "find",
                         !.target_embedding = r.embedding,
                         !.generated = IF r.generated
                                       THEN Append(@, h.target_t_unit.id) ELSE @],
         t_units |-> r.t_units]

\* find_memory_suggestions: the candidate query
SuggestFind(h, store) ==
    LET candidates == Candidates(store, h.target_t_unit.id, h.request.agent_id,
                                 h.request.include_cross_agent)
    IN  [h |-> [h EXCEPT !.pc = IF candidates = <<>> THEN "event" ELSE "candidate",
                         !.candidates = candidates, !.k = 1],
         t_units |-> store]

\* A variant of the loop body that gives up at the first candidate without
\* an embedding
SuggestCandidateAborting(h, store, reply) ==
    LET candidate == h.candidates[h.k]
        r == get_or_create_embedding(store, candidate, reply)
        suggestion == MemorySuggestion(h.target_t_unit, h.target_embedding, candidate,
                                       r.embedding, h.request.valence_weight)
    IN  [h |-> [h EXCEPT !.pc = IF h.k = Len(h.candidates) \/ r.embedding = <<>>
                                THEN "event" ELSE "candidate",
                         !.k = h.k + 1,
                         !.suggestions = IF r.embedding = <<>> THEN @
                                         ELSE Append(@, suggestion),
                         !.generated = IF r.generated THEN Append(@, candidate.id) ELSE @],
         t_units |-> r.t_units]

\* find_memory_suggestions, the loop body for candidate k: a candidate
\* without an embedding is skipped (continue), the others are scored
SuggestCandidate(h, store, reply) ==
    LET candidate == h.candidates[h.k]
        r == get_or_create_embedding(store, candidate, reply)
        suggestion == MemorySuggestion(h.target_t_unit, h.target_embedding, candidate,
                                       r.embedding, h.request.valence_weight)
    IN  [h |-> [h EXCEPT !.pc = IF h.k = Len(h.candidates) THEN "event" ELSE "candidate",
                         !.k = h.k + 1,
                         !.suggestions = IF r.embedding = <<>> THEN @
                                         ELSE Append(@, suggestion),
                         !.generated = IF r.generated THEN Append(@, candidate.id) ELSE @],
         t_units |-> r.t_units]

\* find_memory_suggestions, its last lines: sort and truncate
Suggestions(suggestions, limit) == Truncate(SortByScore(suggestions), limit)

\* The unit whose embedding the handler gets next
UnitAt(h) == IF h.pc = "target" THEN h.target_t_unit ELSE h.candidates[h.k]

\* One step of the handler
SuggestStep(h, store, reply) ==
    IF h.pc = "target" THEN SuggestTarget(h, store, reply)
    ELSE IF h.pc = "find" THEN SuggestFind(h, store)
    ELSE SuggestCandidate(h, store, reply)

\* The handler run from h to its last step; replies gives the collaborator's
\* reply for each unit that is asked for
RECURSIVE SuggestRun(_, _, _)
SuggestRun(h, store, replies) ==
    IF h.pc = "event" THEN [h |-> h, t_units |-> store]
    ELSE LET reply == IF h.pc = "find" THEN EmbeddingReply(FALSE)
                      ELSE replies[UnitAt(h).id]
         IN  CHOOSE end \in {SuggestRun(r.h, r.t_units, replies) :
                                r \in {SuggestStep(h, store, reply)}} : TRUE

\* The event and the response of suggest_memories
SuggestEvent(h, suggestions) ==
    [type |-> "memory_suggestion", t_unit_id |-> h.request.t_unit_id,
     metadata |-> [suggestions_count |-> Len(suggestions),
                   include_cross_agent |-> h.request.include_cross_agent,
                   valence_weight |-> h.request.valence_weight],
     agent_id |-> h.request.agent_id]

SuggestResponse(h, suggestions) ==
    [op |-> "suggest_memories", status |-> 200, request |-> h.request,
     target_t_unit |-> h.target_t_unit, candidates |-> h.candidates,
     scored |-> h.suggestions, generated |-> h.generated,
     result |-> suggestions, error |-> ""]

\* suggest_memories as a function of the store and its inputs
suggest_memories(store, req, replies) ==
    IF ~Resolves(store, req.t_unit_id)
    THEN [status |-> 404, error |-> "T-unit not found"]
    ELSE CHOOSE response \in UNION
            {{[status |-> 200, t_units |-> r.t_units,
               event |-> SuggestEvent(r.h, suggestions),
               response |-> SuggestResponse(r.h, suggestions)] :
                  suggestions \in {Suggestions(r.h.suggestions, req.limit)}} :
                  r \in {SuggestRun(SuggestStart(store, req), store, replies)}} : TRUE

\* The stored units without an embedding
NeedIds(store) == {store[i].id : i \in {j \in 1..Len(store) : store[j].embedding = <<>>}}

\* A memory-suggestion event is in the log
SuggestionLogged == \E i \in 1..Len(events) : events[i].type = "memory_suggestion"

\* The request is followed on every store the creations can build, once in
\* a behaviour: a second request would start from a store that the creations
\* build as well
SuggestMemories ==
    /\ ~SuggestionLogged
    /\ \E req \in SuggestRequests(t_units) :
       \E replies \in [NeedIds(t_units) -> EmbeddingReplies(embedding_up)] :
       \E r \in {suggest_memories(t_units, req, replies)} :
          IF r.status # 200 THEN Rejected("suggest_memories", r.status, r.error)
          ELSE /\ t_units' = r.t_units
               /\ events' = InsertOne(events, r.event)
               /\ last' = r.response
               /\ UNCHANGED <<next_id, embedding_up, call, agents, inflight>>

\* POST /t-units with any of the collaborator's vectors
CreateTUnitWithVector ==
    /\ Len(t_units) < MaxMemoryUnits
    /\ ~SuggestionLogged
    /\ \E req \in CreateRequests, reply \in EmbeddingReplies(embedding_up) :
          create_t_unit(req, reply)

\* The embedding collaborator goes down or comes back
EmbeddingServiceFlips ==
    /\ embedding_up' = ~embedding_up
    /\ UNCHANGED <<t_units, events, next_id, last, call, agents, inflight>>

MemoryNext == CreateTUnitWithVector \/ EmbeddingServiceFlips \/ SuggestMemories

SpecMemory == Init /\ [][MemoryNext]_vars

-----------------------------------------------------------------------------
(* POST /memory/suggest by concurrent requests: each process runs the       *)
(* handler one step at a time; a step ends at the await of a database call, *)
(* where the other process may run.                                         *)

\* most memory-suggestion requests begun in a behaviour of SpecMemoryRace
MaxSuggestRequests == 2

\* The requests that are in progress
Suggesting == {p \in Procs : inflight[p] # Idle}

\* The concurrent requests: the cross-agent ones with the smallest limit
ConcurrentRequests(store) ==
    {req \in SuggestRequests(store) :
        req.include_cross_agent /\ \A l \in MemoryLimits : req.limit <= l}

\* suggest_memories up to the return of find_one
SuggestBegin(p) ==
    /\ inflight[p] = Idle
    /\ Len(events) + Cardinality(Suggesting) < MaxSuggestRequests
    /\ \E req \in ConcurrentRequests(t_units) :
          IF ~Resolves(t_units, req.t_unit_id)
          THEN Rejected("suggest_memories", 404, "T-unit not found")
          ELSE /\ inflight' = [inflight EXCEPT ![p] = SuggestStart(t_units, req)]
               /\ UNCHANGED <<t_units, events, next_id, embedding_up, last, call, agents>>

\* get_or_create_embedding(target_t_unit) on the document find_one returned
SuggestTargetEmbedding(p) ==
    /\ inflight[p].op = "suggest"
    /\ inflight[p].pc = "target"
    /\ \E reply \in EmbeddingReplies(embedding_up) :
       \E r \in {SuggestTarget(inflight[p], t_units, reply)} :
          /\ t_units' = r.t_units
          /\ inflight' = [inflight EXCEPT ![p] = r.h]
    /\ UNCHANGED <<events, next_id, embedding_up, last, call, agents>>

\* db.t_units.find(query).to_list(...)
SuggestFindCandidates(p) ==
    /\ inflight[p].op = "suggest"
    /\ inflight[p].pc = "find"
    /\ \E r \in {SuggestFind(inflight[p], t_units)} :
          inflight' = [inflight EXCEPT ![p] = r.h]
    /\ UNCHANGED <<t_units, events, next_id, embedding_up, last, call, agents>>

\* get_or_create_embedding(candidate) on a document of the candidate list
SuggestCandidateEmbedding(p) ==
    /\ inflight[p].op = "suggest"
    /\ inflight[p].pc = "candidate"
    /\ \E reply \in EmbeddingReplies(embedding_up) :
       \E r \in {SuggestCandidate(inflight[p], t_units, reply)} :
          /\ t_units' = r.t_units
          /\ inflight' = [inflight EXCEPT ![p] = r.h]
    /\ UNCHANGED <<events, next_id, embedding_up, last, call, agents>>

\* The sort, the event and the response
SuggestRespond(p) ==
    /\ inflight[p].op = "suggest"
    /\ inflight[p].pc = "event"
    /\ \E suggestions \in {Suggestions(inflight[p].suggestions,
                                        inflight[p].request.limit)} :
          /\ events' = InsertOne(events, SuggestEvent(inflight[p], suggestions))
          /\ last' = SuggestResponse(inflight[p], suggestions)
    /\ inflight' = [inflight EXCEPT ![p] = Idle]
    /\ UNCHANGED <<t_units, next_id, embedding_up, call, agents>>

\* Units are created before the requests begin
MemoryRaceNext ==
    \/ (Suggesting = {} /\ events = <<>>) /\ CreateTUnit
    \/ EmbeddingServiceFlips
    \/ \E p \in Procs :
          \/ SuggestBegin(p)
          \/ SuggestTargetEmbedding(p)
          \/ SuggestFindCandidates(p)
          \/ SuggestCandidateEmbedding(p)
          \/ SuggestRespond(p)

SpecMemoryRace == Init /\ [][MemoryRaceNext]_vars

-----------------------------------------------------------------------------
(* POST /multi-agent/exchange *)

\* most T-units in a store on which an exchange is followed
MaxExchangeUnits == 3

\* MultiAgentExchange.exchange_type: the default
ExchangeTypes == {"anomaly_sharing"}

\* The bodies of the exchange requests for a store
ExchangeRequests(store) ==
    [source_agent_id : AgentIds, target_agent_id : AgentIds,
     t_unit_id : StoredIds(store) \cup UnknownIds, exchange_type : ExchangeTypes]

\* multi_agent_exchange as a function of the store and the request: 404, or
\* the store with the copy inserted and the event
multi_agent_exchange(store, new_id, exchange) ==
    IF ~Resolves(store, exchange.t_unit_id)
    THEN [status |-> 404, error |-> "T-unit not found"]
    ELSE LET original_t_unit == FindOne(store, exchange.t_unit_id)
             exchanged_t_unit ==
                 TUnit(new_id, <<"[RECEIVED] ">> \o original_t_unit.content,
                       original_t_unit.valence, <<original_t_unit.id>>, "exchanged",
                       "None", exchange.target_agent_id, FALSE)
         IN  [status |-> 200, error |-> "",
              t_units |-> InsertOne(store, exchanged_t_unit),
              new_t_unit |-> exchanged_t_unit,
              event |-> [type |-> "multi_agent_exchange", t_unit_id |-> new_id,
                         metadata |-> [source_agent |-> exchange.source_agent_id,
                                       target_agent |-> exchange.target_agent_id,
                                       original_t_unit |-> exchange.t_unit_id,
                                       exchange_type |-> exchange.exchange_type],
                         agent_id |-> exchange.target_agent_id]]

Exchange ==
    /\ Len(t_units) < MaxExchangeUnits
    /\ \E exchange \in ExchangeRequests(t_units) :
       \E r \in {multi_agent_exchange(t_units, next_id, exchange)} :
          IF r.status # 200 THEN Rejected("multi_agent_exchange", r.status, r.error)
          ELSE /\ t_units' = r.t_units
               /\ events' = InsertOne(events, r.event)
               /\ next_id' = next_id + 1
               /\ last' = [NoRequest EXCEPT !.op = "multi_agent_exchange",
                              !.status = 200, !.ids = <<exchange.t_unit_id>>,
                              !.result = <<r.new_t_unit.id>>]
               /\ UNCHANGED <<embedding_up, call, agents, inflight>>

-----------------------------------------------------------------------------
(* All the operations together *)

\* A create request whose valence Valence(...) rejects (curiosity > 1)
OutOfRangeCreateRequests ==
    {[content |-> <<"x">>, valence |-> Valence(<<3, 2>>, RHalf, RHalf),
      linkage |-> "generative", phase |-> "None", agent_id |-> "agent_alpha"]}

\* POST /t-units with the validation of the body: a valence outside [0,1]
\* is rejected with 422 before the handler runs
CreateTUnitValidated ==
    /\ Len(t_units) < MaxCreated
    /\ \E req \in CreateRequests \cup OutOfRangeCreateRequests :
          IF ~ValenceValid(req.valence)
          THEN Rejected("create_t_unit", 422, "valence: out of range")
          ELSE create_t_unit(req, EmbeddingReply(embedding_up))

\* SpecEngine follows the operations that store units on every store they
\* build; from each store of at most MaxCreated units it also follows a
\* transformation, the agent operations and one memory-suggestion request.
\* Once an agent is registered or a suggestion is logged no more units are
\* stored.
StoringUnits == agents = <<>> /\ ~SuggestionLogged /\ last.op # "delete_agent"

SmallStore == Len(t_units) <= MaxCreated

\* The id lists of the engine's synthesis requests: the pairs
EngineIdLists == {<<a, b>> : a \in StoredIds(t_units) \cup UnknownIds,
                             b \in StoredIds(t_units) \cup UnknownIds}

\* The generative replies of the engine's requests
EngineReplies(asked) ==
    IF asked THEN {AIValid, AIValenceOutOfRange, AINullContent} ELSE {AIValid}

EngineSynthesize ==
    /\ StoringUnits
    /\ Len(t_units) < MaxSynthUnits
    /\ \E ids \in EngineIdLists, use_ai \in BOOLEAN :
       \E ai_reply \in EngineReplies(use_ai /\ Len(ResolveAll(t_units, ids)) >= 2),
          recalled_ids \in RecalledChoices(use_ai) :
       \E r \in {synthesize_t_units(t_units, next_id, ids, use_ai, recalled_ids,
                                    ai_reply, EmbeddingReply(embedding_up))} :
          IF r.status # 200 THEN Rejected("synthesize", r.status, r.error)
          ELSE /\ t_units' = r.t_units
               /\ events' = InsertOne(events, r.event)
               /\ next_id' = next_id + 1
               /\ last' = [NoRequest EXCEPT !.op = "synthesize", !.status = 200,
                              !.ids = ids, !.result = <<r.new_t_unit.id>>]
               /\ UNCHANGED <<embedding_up, call, agents, inflight>>

\* The five replies of one transformation are of one kind
EngineTransform ==
    /\ StoringUnits
    /\ SmallStore
    /\ \A i \in 1..Len(t_units) : t_units[i].phase = "None"
    /\ \E t_unit_id \in StoredIds(t_units) \cup UnknownIds, use_ai \in BOOLEAN,
          anomaly \in Anomalies :
       \E ai_reply \in EngineReplies(use_ai /\ Resolves(t_units, t_unit_id)),
          recalled_ids \in RecalledChoices(use_ai) :
       \E r \in {transform_t_unit(t_units, events, next_id, t_unit_id, anomaly, use_ai,
                                  recalled_ids,
                                  [ai |-> [n \in 1..Len(phases) |-> ai_reply],
                                   embedding |-> EmbeddingReply(embedding_up)])} :
          IF r.status = 404 THEN Rejected("transform", r.status, r.error)
          ELSE /\ t_units' = r.t_units
               /\ events' = r.events
               /\ next_id' = next_id + Len(t_units') - Len(t_units)
               /\ last' = [NoRequest EXCEPT !.op = "transform", !.status = r.status,
                              !.error = r.error, !.ids = <<t_unit_id>>,
                              !.result = IF r.status = 200
                                         THEN [i \in 1..Len(r.new_t_units) |->
                                                  r.new_t_units[i].id]
                                         ELSE <<>>]
               /\ UNCHANGED <<embedding_up, call, agents, inflight>>

EngineNext ==
    \/ StoringUnits /\ CreateTUnitValidated
    \/ EngineSynthesize
    \/ EngineTransform
    \/ StoringUnits /\ Exchange
    \/ SmallStore /\ agents = <<>> /\ SuggestMemories
    \/ SmallStore /\ ~SuggestionLogged /\ CreateAgent
    \/ SmallStore /\ ~SuggestionLogged /\ DeleteAgent

SpecEngine == Init /\ [][EngineNext]_vars

ExchangeNext == CreateTUnit \/ Exchange

SpecExchange == Init /\ [][ExchangeNext]_vars

-----------------------------------------------------------------------------
(* POST /synthesize, one database write at a time.  After the reads and the *)
(* construction of the new unit the handler awaits update_one for each id   *)
(* of the request, then insert_one on db.t_units, then insert_one on        *)
(* db.events; other handlers run between its awaits.                        *)

\* the largest id a synthesis may take in the step-by-step specifications
MaxSynthesisId == 4

\* The id lists of the requests followed step by step: the pairs
StepIdLists(store) ==
    {<<a, b>> : a \in StoredIds(store) \cup UnknownIds,
                b \in StoredIds(store) \cup UnknownIds}

\* The handler up to the construction of new_t_unit: the reads, the 400, the
\* deterministic content and valence, the embedding; TUnit(...) draws the id
SynthBegin(p) ==
    /\ inflight[p] = Idle
    /\ next_id <= MaxSynthesisId
    /\ \E ids \in StepIdLists(t_units) :
       \E r \in {synthesize_t_units(t_units, next_id, ids, FALSE, <<>>, AIValid,
                                    EmbeddingReply(embedding_up))} :
          IF r.status # 200 THEN Rejected("synthesize", r.status, r.error)
          ELSE /\ inflight' = [inflight EXCEPT ![p] =
                      [op |-> "synthesize", pc |-> "push", k |-> 1, ids |-> ids,
                       new_t_unit |-> r.new_t_unit, event |-> r.event]]
               /\ next_id' = next_id + 1
               /\ UNCHANGED <<t_units, events, embedding_up, last, call, agents>>

\* `await db.t_units.update_one({"id": t_unit_id}, {"$push": {"children": ...}})`
\* for the k-th id of the request
SynthPush(p) ==
    /\ inflight[p].op = "synthesize"
    /\ inflight[p].pc = "push"
    /\ LET f == inflight[p]
       IN  /\ t_units' = PushChildren(t_units, f.ids[f.k], <<f.new_t_unit.id>>)
           /\ inflight' = [inflight EXCEPT ![p] =
                  [f EXCEPT !.k = f.k + 1,
                            !.pc = IF f.k = Len(f.ids) THEN "insert" ELSE "push"]]
    /\ UNCHANGED <<events, next_id, embedding_up, last, call, agents>>

\* `await db.t_units.insert_one(new_t_unit.dict())`
SynthInsertUnit(p) ==
    /\ inflight[p].op = "synthesize"
    /\ inflight[p].pc = "insert"
    /\ t_units' = InsertOne(t_units, inflight[p].new_t_unit)
    /\ inflight' = [inflight EXCEPT ![p] = [inflight[p] EXCEPT !.pc = "event"]]
    /\ UNCHANGED <<events, next_id, embedding_up, last, call, agents>>

\* `await db.events.insert_one(event.dict())` and the response
SynthInsertEvent(p) ==
    /\ inflight[p].op = "synthesize"
    /\ inflight[p].pc = "event"
    /\ events' = InsertOne(events, inflight[p].event)
    /\ last' = [NoRequest EXCEPT !.op = "synthesize", !.status = 200,
                   !.ids = inflight[p].ids,
                   !.result = <<inflight[p].new_t_unit.id>>]
    /\ inflight' = [inflight EXCEPT ![p] = Idle]
    /\ UNCHANGED <<t_units, next_id, embedding_up, call, agents>>

\* No request is in progress
AllIdle == \A p \in Procs : inflight[p] = Idle

\* One process, which may die at any await; units are created between requests
SynthesisStepsNext ==
    \/ AllIdle /\ CreateTUnit
    \/ \E p \in TransformProcs :
          \/ SynthBegin(p)
          \/ SynthPush(p)
          \/ SynthInsertUnit(p)
          \/ SynthInsertEvent(p)
          \/ Crash(p)

SpecSynthesisSteps == Init /\ [][SynthesisStepsNext]_vars

\* POST /t-units with the first body
CreateFirstBody ==
    /\ Len(t_units) < MaxCreated
    /\ \E req \in {c \in CreateRequests : c.content = <<"x">>} :
          create_t_unit(req, EmbeddingReply(embedding_up))

\* No transformation is in progress
NoTransformation == \A q \in Procs : inflight[q].op # "transform"

\* Two processes, each with one request: two syntheses, or a synthesis and a
\* transformation.  The store is filled before, with units of one body, and
\* both requests have begun before either logs an event; from there their
\* writes interleave in every order.
SharedParentNext ==
    \/ (AllIdle /\ events = <<>>) /\ CreateFirstBody
    \/ \E p \in Procs :
          \/ events = <<>> /\ SynthBegin(p)
          \/ SynthPush(p)
          \/ SynthInsertUnit(p)
          \/ SynthInsertEvent(p)
          \/ (events = <<>> /\ NoTransformation) /\ TransformBegin(p)
          \/ TransformInsertUnit(p)
          \/ TransformInsertEvent(p)
          \/ TransformPushChildren(p)

SpecSharedParent == Init /\ [][SharedParentNext]_vars

-----------------------------------------------------------------------------
(* DELETE /agents/{agent_id}, one database operation at a time: the handler *)
(* awaits count_documents on db.t_units, then delete_one on db.agents;      *)
(* other handlers run between the two.                                      *)

\* `await db.t_units.count_documents(...)` and the 400
DeleteAgentCount(p) ==
    /\ inflight[p] = Idle
    /\ \E agent_id \in AgentIds :
          IF CountDocuments(t_units, agent_id) > 0
          THEN /\ last' = [NoRequest EXCEPT !.op = "delete_agent", !.status = 400,
                              !.error = "Cannot delete agent: has associated thoughts",
                              !.ids = <<agent_id>>]
               /\ UNCHANGED inflight
          ELSE /\ inflight' = [inflight EXCEPT ![p] =
                      [op |-> "delete_agent", pc |-> "delete", agent_id |-> agent_id]]
               /\ UNCHANGED last
    /\ UNCHANGED <<t_units, events, next_id, embedding_up, call, agents>>

\* `await db.agents.delete_one(...)`, the 404 and the response
DeleteAgentRemove(p) ==
    /\ inflight[p].op = "delete_agent"
    /\ \E result \in {DeleteOne(agents, inflight[p].agent_id)} :
          /\ agents' = result.docs
          /\ last' = [NoRequest EXCEPT
                         !.op = "delete_agent",
                         !.status = IF result.deleted_count = 0 THEN 404 ELSE 200,
                         !.error = IF result.deleted_count = 0
                                   THEN "Agent not found" ELSE "",
                         !.ids = <<inflight[p].agent_id>>]
    /\ inflight' = [inflight EXCEPT ![p] = Idle]
    /\ UNCHANGED <<t_units, events, next_id, embedding_up, call>>

AgentRaceNext ==
    \/ CreateTUnit
    \/ CreateAgent
    \/ \E p \in Procs : DeleteAgentCount(p) \/ DeleteAgentRemove(p)

SpecAgentRace == Init /\ [][AgentRaceNext]_vars

-----------------------------------------------------------------------------
(* The claims *)

Dims == {"curiosity", "certainty", "dissonance"}

\* The stored unit with this id
Unit(id) == FindOne(t_units, id)

\* The last request was accepted and answered with status 200
Succeeded(op) == last.op = op /\ last.status = 200

\* The phase table of the specification: the signed deltas of each phase
Delta(phase) ==
    CASE phase = "Shattering" ->
            [curiosity |-> <<0, 1>>, certainty |-> <<-1, 10>>, dissonance |-> <<2, 10>>]
      [] phase = "Remembering" ->
            [curiosity |-> <<2, 10>>, certainty |-> <<0, 1>>, dissonance |-> <<0, 1>>]
      [] phase = "Re-feeling" ->
            [curiosity |-> <<0, 1>>, certainty |-> <<0, 1>>, dissonance |-> <<-2, 10>>]
      [] phase = "Re-centering" ->
            [curiosity |-> <<0, 1>>, certainty |-> <<2, 10>>, dissonance |-> <<0, 1>>]
      [] phase = "Becoming" ->
            [curiosity |-> <<0, 1>>, certainty |-> <<2, 10>>, dissonance |-> <<-1, 10>>]

\* x equals a + d clamped to [0,1], by cross-multiplication
IsClampedSum(x, a, d) ==
    LET n == a[1] * d[2] + d[1] * a[2]
        m == a[2] * d[2]
    IN  IF n < 0 THEN x[1] = 0
        ELSE IF n > m THEN x[1] = x[2]
        ELSE x[1] * m = n * x[2]

IsPhaseValence(x, v, phase) ==
    \A dim \in Dims : IsClampedSum(x[dim], v[dim], Delta(phase)[dim])

\* x is the arithmetic mean of the dimension dim of a non-empty list
IsMean(x, valences, dim) ==
    LET total == SumDim(valences, dim)
    IN  x[1] * total[2] * Len(valences) = total[1] * x[2]

\* The ids of the request that resolve, in request order
RECURSIVE ResolvedIds(_)
ResolvedIds(ids) ==
    IF ids = <<>> THEN <<>>
    ELSE IF ids[1] \in StoredIds(t_units) THEN <<ids[1]>> \o ResolvedIds(Tail(ids))
    ELSE ResolvedIds(Tail(ids))

\* The contents joined in order by the separator
RECURSIVE Joined(_)
Joined(contents) ==
    IF Len(contents) = 1 THEN contents[1]
    ELSE contents[1] \o <<" |x| ">> \o Joined(Tail(contents))

Contains(content, part) ==
    \E k \in 0..(Len(content) - Len(part)) : SubSeq(content, k + 1, k + Len(part)) = part

\* C1: with use_ai, every phase whose generative reply is malformed (the call
\* raised, the text is no JSON object {content: string, valence in [0,1]})
\* yields the unit of the deterministic mode, and whatever the replies to the
\* other phases every phase yields its unit: all five are returned, those with
\* a well-formed reply carrying the reply's content and valence.
C1_FallbackEqualsDeterministic ==
    (last.op = "transform" /\ last.use_ai) =>
        /\ Len(last.result) = Len(phases)
        /\ \A n \in 1..Len(phases) :
              LET original == Unit(last.ids[1])
                  produced == Unit(last.result[n])
              IN  /\ last.ai[n] = "malformed" =>
                        /\ produced.content =
                              generate_transformation_content(original.content,
                                                              phases[n], last.anomaly)
                        /\ IsPhaseValence(produced.valence, original.valence, phases[n])
                  /\ last.ai[n] = "wellformed" =>
                        /\ produced.content = AIValid.content
                        /\ produced.valence = AIValid.valence

\* C2: a unit produced by synthesize or transform has ai_generated = TRUE
\* exactly when its content and valence are the generative collaborator's
\* (the reply was well formed); after a fallback and with use_ai = FALSE it
\* is FALSE.
C2_AiGeneratedIffFromCollaborator ==
    (Succeeded("synthesize") \/ Succeeded("transform")) =>
        \A n \in 1..Len(last.result) :
            Unit(last.result[n]).ai_generated = (last.ai[n] = "wellformed")

\* C3: every transform call on a stored unit returns exactly five new units,
\* tagged Shattering, Remembering, Re-feeling, Re-centering, Becoming in this
\* order, each with parents = [original id], linkage "transformational" and
\* the original's agent_id.
C3_FiveSiblingsInPhaseOrder ==
    (last.op = "transform" /\ last.status # 404) =>
        /\ Len(last.result) = 5
        /\ \A n \in 1..5 :
              LET produced == Unit(last.result[n])
              IN  /\ produced.phase =
                        <<"Shattering", "Remembering", "Re-feeling", "Re-centering",
                          "Becoming">>[n]
                  /\ produced.parents = last.ids
                  /\ produced.linkage = "transformational"
                  /\ produced.agent_id = Unit(last.ids[1]).agent_id

\* C4: after a successful synthesize, the children of every input unit hold
\* the new unit's id, and the new unit is stored with the request's ids as
\* its parents.
C4_ParentsKnowTheirChild ==
    Succeeded("synthesize") =>
        LET new_id == last.result[1]
        IN  /\ new_id \in StoredIds(t_units)
            /\ Unit(new_id).parents = last.ids
            /\ \A k \in 1..Len(last.ids) :
                  (last.ids[k] \in StoredIds(t_units)) =>
                      \E c \in 1..Len(Unit(last.ids[k]).children) :
                          Unit(last.ids[k]).children[c] = new_id

C4_Witness ==
    /\ Succeeded("synthesize")
    /\ last.ids = <<1, 2>>
    /\ Unit(1).children = <<3>>
    /\ Unit(2).children = <<3>>
    /\ Unit(3).parents = <<1, 2>>

\* C5: apply_transformation_phase maps a valence with all dimensions in
\* [0,1] and one of the five phases to a valence with all dimensions in
\* [0,1], and leaves its argument as it was.
C5_PhaseStaysInUnitInterval ==
    (call.fn = "apply_transformation_phase" /\ call.done
        /\ call.phase \in PhaseNames /\ ValenceValid(call.valence)) =>
        /\ \A dim \in Dims :
              /\ call.ret[dim][1] >= 0
              /\ call.ret[dim][1] <= call.ret[dim][2]
        /\ call.arg_after = call.valence

\* Shattering on certainty 0 and dissonance 9/10: both clamps act
C5_Witness ==
    /\ call.fn = "apply_transformation_phase"
    /\ call.done
    /\ call.phase = "Shattering"
    /\ call.valence = Valence(RHalf, R0, <<9, 10>>)
    /\ call.ret = Valence(RHalf, R0, R1)

\* C6: in deterministic mode each of the five outputs has the valence of the
\* original unit plus its phase's delta, clamped to [0,1]; the delta is
\* applied to the original's valence, never to an earlier phase's result;
\* (0.5,0.5,0.5) gives (0.5,0.4,0.7) for Shattering and (0.5,0.7,0.4) for
\* Becoming.
C6_DeltaOnOriginalValence ==
    (Succeeded("transform") /\ ~last.use_ai) =>
        LET original == Unit(last.ids[1])
        IN  /\ \A n \in 1..Len(phases) :
                  IsPhaseValence(Unit(last.result[n]).valence, original.valence,
                                 phases[n])
            /\ original.valence = Valence(RHalf, RHalf, RHalf) =>
                  /\ Unit(last.result[1]).valence = Valence(RHalf, <<2, 5>>, <<7, 10>>)
                  /\ Unit(last.result[5]).valence = Valence(RHalf, <<7, 10>>, <<2, 5>>)

\* a deterministic transformation of the unit (9/10, 0, 19/20): Shattering
\* clamps certainty at 0 and dissonance at 1, and Re-feeling starts again from
\* the original dissonance
C6_Witness ==
    /\ Succeeded("transform")
    /\ ~last.use_ai
    /\ Unit(last.ids[1]).valence = Valence(<<9, 10>>, R0, <<19, 20>>)
    /\ Unit(last.result[1]).valence = Valence(<<9, 10>>, R0, R1)
    /\ Unit(last.result[3]).valence = Valence(<<9, 10>>, R0, <<3, 4>>)

\* C7: synthesis with use_ai = FALSE yields a unit whose valence is on each
\* dimension the mean of the resolved inputs' valences, whose content holds
\* every input's content, joined in input order by the separator, and whose
\* ai_generated is FALSE.
C7_DeterministicSynthesis ==
    (Succeeded("synthesize") /\ ~last.use_ai) =>
        LET produced == Unit(last.result[1])
            inputs == ResolvedIds(last.ids)
            valences == [k \in 1..Len(inputs) |-> Unit(inputs[k]).valence]
            contents == [k \in 1..Len(inputs) |-> Unit(inputs[k]).content]
        IN  /\ \A dim \in Dims : IsMean(produced.valence[dim], valences, dim)
            /\ \A k \in 1..Len(inputs) : Contains(produced.content, contents[k])
            /\ produced.content = <<"SYNTHESIS: ">> \o Joined(contents)
            /\ produced.ai_generated = FALSE

\* the units "x" (1/2,1/2,1/2) and "y" (9/10,0,19/20) synthesized without AI
C7_Witness ==
    /\ Succeeded("synthesize")
    /\ ~last.use_ai
    /\ Len(last.ids) = 2
    /\ Unit(last.ids[1]).content = <<"x">>
    /\ Unit(last.ids[Len(last.ids)]).content = <<"y">>
    /\ Unit(last.result[1]).content = <<"SYNTHESIS: ", "x", " |x| ", "y">>
    /\ Unit(last.result[1]).valence = Valence(<<7, 10>>, <<1, 4>>, <<29, 40>>)

\* C8: average_valence returns the per-dimension mean of a non-empty list,
\* (0.5, 0.5, 0.5) for the empty list, and a valence in [0,1] for inputs in
\* [0,1].
C8_AverageIsMean ==
    (call.fn = "average_valence" /\ call.done) =>
        /\ call.valences = <<>> => call.ret = Valence(<<1, 2>>, <<1, 2>>, <<1, 2>>)
        /\ call.valences # <<>> =>
              \A dim \in Dims : IsMean(call.ret[dim], call.valences, dim)
        /\ (\A k \in 1..Len(call.valences) : ValenceValid(call.valences[k])) =>
              \A dim \in Dims :
                  /\ call.ret[dim][1] >= 0
                  /\ call.ret[dim][1] <= call.ret[dim][2]

C8_Witness ==
    /\ call.fn = "average_valence"
    /\ call.done
    /\ call.valences = << Valence(R0, R0, R0), Valence(R1, R1, R1),
                          Valence(<<4, 5>>, <<3, 10>>, <<3, 5>>) >>
    /\ call.ret = Valence(<<3, 5>>, <<13, 30>>, <<8, 15>>)

\* C9: a synthesis request is accepted only if its ids resolve to at least
\* two distinct stored units; a request naming one stored unit twice is
\* rejected.
C9_AcceptedOnlyWithTwoUnits ==
    Succeeded("synthesize") =>
        Cardinality({last.ids[k] : k \in 1..Len(last.ids)}
                        \cap (StoredIds(t_units) \ {last.result[1]})) >= 2

\* C10: the unit created by a successful synthesis has the request's ids, in
\* the request's order, as parents, and linkage "generative".
C10_ParentsAreRequestIds ==
    Succeeded("synthesize") =>
        /\ Unit(last.result[1]).parents = last.ids
        /\ Unit(last.result[1]).linkage = "generative"

\* a request naming an unknown id between two stored ones
C10_Witness ==
    /\ Succeeded("synthesize")
    /\ last.ids = <<2, 0, 1>>
    /\ Unit(last.result[1]).parents = <<2, 0, 1>>

C17_CollaboratorFailureNeverSurfaced ==
    /\ last.op = "create_t_unit" => last.status = 200
    /\ (last.op = "transform" /\ last.status # 404) =>
          /\ last.status = 200
          /\ Len(last.result) = Len(phases)
          /\ \A n \in 1..Len(phases) : last.result[n] \in StoredIds(t_units)

\* C14: cosine_similarity returns exactly 0 when a vector is empty, when the
\* two vectors differ in length and when a vector has zero norm, and 1 for
\* two equal vectors of non-zero norm.
C14_CosineGuards ==
    (call.fn = "cosine_similarity" /\ call.done) =>
        /\ (call.a = <<>> \/ call.b = <<>>) => call.ret = <<0, 1>>
        /\ Len(call.a) # Len(call.b) => call.ret = <<0, 1>>
        /\ ((\A i \in 1..Len(call.a) : call.a[i] = 0)
               \/ (\A i \in 1..Len(call.b) : call.b[i] = 0)) => call.ret = <<0, 1>>
        /\ (call.a = call.b /\ \E i \in 1..Len(call.a) : call.a[i] # 0) =>
              call.ret = <<1, 1>>

\* the vector (3, 4), of norm 5, against itself
C14_Witness ==
    /\ call.fn = "cosine_similarity"
    /\ call.done
    /\ call.a = <<3, 4>>
    /\ call.b = <<3, 4>>
    /\ call.ret = <<1, 1>>

\* the agent documents with this id
AgentDocs(docs, id) == {i \in 1..Len(docs) : docs[i].id = id}

\* C16: a delete_agent call for an agent that at least one stored T-unit
\* names as agent_id is rejected (status 400) and leaves db.agents as it was;
\* a call for an agent that no T-unit names and that exists removes its
\* document; no call removes a document of an agent that a T-unit names.
C16_DeleteAgentGuard ==
    [][last'.op = "delete_agent" =>
          LET agent_id == last'.ids[1]
              referenced == \E i \in 1..Len(t_units) : t_units[i].agent_id = agent_id
              exists == AgentDocs(agents, agent_id) # {}
          IN  /\ referenced => (last'.status = 400 /\ agents' = agents)
              /\ (~referenced /\ exists) =>
                    /\ last'.status = 200
                    /\ Len(agents') = Len(agents) - 1
                    /\ Cardinality(AgentDocs(agents', agent_id))
                          = Cardinality(AgentDocs(agents, agent_id)) - 1
              /\ (~referenced /\ ~exists) => (last'.status = 404 /\ agents' = agents)
              /\ t_units' = t_units]_vars

\* a rejected deletion: agent_alpha is stored and a T-unit names it
C16_Witness ==
    /\ last.op = "delete_agent"
    /\ last.status = 400
    /\ last.ids = <<"agent_alpha">>
    /\ AgentDocs(agents, "agent_alpha") # {}
    /\ \E i \in 1..Len(t_units) : t_units[i].agent_id = "agent_alpha"

\* the ids of the units a handler in progress has stored so far
NewIds(f) == [k \in 1..Len(f.new_t_units) |-> f.new_t_units[k].id]

\* C18: the children of a stored unit change in one way only: the handler of
\* a transformation of that unit, having stored all five phase units, appends
\* their five ids in phase order in one step.  So in every state, in the
\* middle of a transformation and after a crash or an abort too, the
\* original's children hold none or all five ids of a transformation, and
\* only ids of stored units.
C18_ChildrenInOneBatch ==
    [][/\ \A i \in 1..Len(t_units) :
             \/ t_units'[i].children = t_units[i].children
             \/ \E p \in Procs :
                   /\ inflight[p].op = "transform"
                   /\ inflight[p].t_unit_id = t_units[i].id
                   /\ Len(NewIds(inflight[p])) = 5
                   /\ t_units'[i].children = t_units[i].children \o NewIds(inflight[p])
                   /\ \A k \in 1..5 :
                         /\ NewIds(inflight[p])[k] \in StoredIds(t_units)
                         /\ FindOne(t_units, NewIds(inflight[p])[k]).phase = phases[k]
       /\ \A i \in 1..Len(t_units') :
             \A c \in 1..Len(t_units'[i].children) :
                t_units'[i].children[c] \in StoredIds(t_units')
       /\ \A p \in Procs :
             inflight'[p].op = "transform" =>
                \A k \in 1..Len(NewIds(inflight'[p])) :
                   \A c \in 1..Len(FindOne(t_units', inflight'[p].t_unit_id).children) :
                      FindOne(t_units', inflight'[p].t_unit_id).children[c]
                         # NewIds(inflight'[p])[k]]_vars

\* the middle of a transformation: three phase units are stored, the
\* original has no child yet
C18_Witness ==
    /\ inflight["p"].op = "transform"
    /\ inflight["p"].pc = "unit"
    /\ Len(inflight["p"].new_t_units) = 3
    /\ \A k \in 1..3 : inflight["p"].new_t_units[k].id \in StoredIds(t_units)
    /\ Unit(inflight["p"].t_unit_id).children = <<>>

\* The ids of a list of documents or suggestions, in order
IdsOf(s) == [i \in 1..Len(s) |-> s[i].id]

\* The place of the entry with this id in a list
PlaceOf(s, id) == CHOOSE i \in 1..Len(s) : s[i].id = id

\* C12: memory suggestion never returns the target unit: whatever the store
\* holds, the agent filter and include_cross_agent, no suggestion of a
\* successful response has the id of the request's target
C12_TargetNeverSuggested ==
    Succeeded("suggest_memories") =>
        \A i \in 1..Len(last.result) : last.result[i].id # last.request.t_unit_id

\* A cross-agent request whose target has an embedding returned suggestions
C12_Witness ==
    /\ Succeeded("suggest_memories")
    /\ last.request.include_cross_agent
    /\ last.target_t_unit.embedding # <<>>
    /\ Len(last.result) >= 1

\* C13: the returned list is ordered by final_score non-increasing,
\* candidates of equal final_score keep the order the store enumerated them
\* in, and the list is the first min(limit, scored) of that order: no
\* candidate left out scores more than one returned
C13_RankedStableTruncated ==
    Succeeded("suggest_memories") =>
        LET result == last.result
            scored == last.scored
            limit == last.request.limit
        IN  /\ Len(result) = (IF limit < Len(scored) THEN limit ELSE Len(scored))
            /\ \A i \in 1..Len(result) : \E k \in 1..Len(scored) : scored[k] = result[i]
            /\ \A i, j \in 1..Len(result) :
                  i < j => /\ RLeq(result[j].final_score, result[i].final_score)
                           /\ result[i].final_score = result[j].final_score
                                 => PlaceOf(last.candidates, result[i].id)
                                    < PlaceOf(last.candidates, result[j].id)
            /\ \A k \in 1..Len(scored) :
                  (\A i \in 1..Len(result) : result[i].id # scored[k].id) =>
                      \A i \in 1..Len(result) :
                         /\ RLeq(scored[k].final_score, result[i].final_score)
                         /\ scored[k].final_score = result[i].final_score
                               => PlaceOf(last.candidates, result[i].id)
                                  < PlaceOf(last.candidates, scored[k].id)

\* Two candidates were scored, the second higher than the first, and
\* limit 1 returned the second alone
C13_Witness ==
    /\ Succeeded("suggest_memories")
    /\ Len(last.scored) = 2
    /\ RLess(last.scored[1].final_score, last.scored[2].final_score)
    /\ last.request.limit = 1
    /\ IdsOf(last.result) = <<last.scored[2].id>>

\* The stored unit with this id has an embedding
HasEmbedding(id) == FindOne(t_units, id).embedding # <<>>

\* C15: when the target's embedding cannot be obtained the response is the
\* empty list with status 200; when a candidate's embedding cannot be
\* obtained only that candidate is left out: the scored candidates are all
\* the candidates whose embedding was obtained, in enumeration order
C15_EmbeddingFailureSkips ==
    Succeeded("suggest_memories") =>
        IF ~HasEmbedding(last.request.t_unit_id)
        THEN last.result = <<>>
        ELSE /\ IdsOf(last.scored)
                  = IdsOf(SelectSeq(last.candidates, LAMBDA c : HasEmbedding(c.id)))
             /\ Len(last.result) = (IF last.request.limit < Len(last.scored)
                                    THEN last.request.limit ELSE Len(last.scored))

\* The first candidate's embedding could not be obtained and the second
\* candidate was returned
C15_Witness ==
    /\ Succeeded("suggest_memories")
    /\ Len(last.candidates) = 2
    /\ ~HasEmbedding(last.candidates[1].id)
    /\ IdsOf(last.result) = <<last.candidates[2].id>>

\* The stored unit with this id has no embedding
LacksEmbedding(id) == Resolves(t_units, id) /\ FindOne(t_units, id).embedding = <<>>

\* C19: once a stored T-unit has an embedding no step changes it, and a
\* handler obtains an embedding from the collaborator only for a unit that
\* has none in the store, also when memory-suggestion requests run
\* concurrently
C19_EmbeddingGeneratedOnce ==
    [][/\ \A i \in 1..Len(t_units) :
             t_units[i].embedding # <<>> => t_units'[i].embedding = t_units[i].embedding
       /\ \A p \in Procs :
             (/\ inflight[p].op = "suggest"
              /\ inflight'[p].op = "suggest"
              /\ Len(inflight'[p].generated) > Len(inflight[p].generated))
                 => LacksEmbedding(UnitAt(inflight[p]).id)]_vars

\* s is the beginning of t
IsPrefix(s, t) == Len(s) <= Len(t) /\ SubSeq(t, 1, Len(s)) = s

\* C20: no step removes a stored T-unit or changes its id, content, valence,
\* parents, linkage, phase or agent_id; its children only grow at the end
\* and its embedding changes only from none to a vector
C20_FrameOfStoredUnits ==
    [][/\ Len(t_units') >= Len(t_units)
       /\ \A i \in 1..Len(t_units) :
             /\ t_units'[i].id = t_units[i].id
             /\ t_units'[i].content = t_units[i].content
             /\ t_units'[i].valence = t_units[i].valence
             /\ t_units'[i].parents = t_units[i].parents
             /\ t_units'[i].linkage = t_units[i].linkage
             /\ t_units'[i].phase = t_units[i].phase
             /\ t_units'[i].agent_id = t_units[i].agent_id
             /\ IsPrefix(t_units[i].children, t_units'[i].children)
             /\ (t_units'[i].embedding # t_units[i].embedding
                    => t_units[i].embedding = <<>>)]_vars

\* The events that a step added behind the ones stored before it
Added == SubSeq(events', Len(events) + 1, Len(events'))

\* The step completed this operation with status 200
Completes(op) == last' # last /\ last'.op = op /\ last'.status = 200

\* C21: audit events are append-only: every step leaves the stored events
\* as they were, in place, and a completed synthesis adds one "synthesis"
\* event, a completed transformation one "transformation" event per phase
\* unit, a completed memory suggestion one "memory_suggestion" event and a
\* completed exchange one "multi_agent_exchange" event
C21_EventsAppendOnly ==
    [][/\ IsPrefix(events, events')
       /\ Completes("synthesize")
             => Len(Added) = 1 /\ Added[1].type = "synthesis"
       /\ Completes("transform")
             => /\ Len(Added) = Len(phases)
                /\ \A i \in 1..Len(Added) :
                      /\ Added[i].type = "transformation"
                      /\ Added[i].t_unit_id = last'.result[i]
       /\ Completes("suggest_memories")
             => Len(Added) = 1 /\ Added[1].type = "memory_suggestion"
       /\ Completes("multi_agent_exchange")
             => Len(Added) = 1 /\ Added[1].type = "multi_agent_exchange"
       /\ (last'.op \in {"create_t_unit", "create_agent", "delete_agent"}
              \/ last'.status # 200) /\ last'.op # "transform"
             => events' = events]_vars

\* The events of a completed transformation were logged behind the event of
\* an exchange
C21_Witness ==
    /\ Succeeded("transform")
    /\ Len(events) = Len(phases) + 1
    /\ events[1].type = "multi_agent_exchange"
    /\ events[Len(events)].type = "transformation"

\* x is an entry of the list s
Lists(s, x) == \E k \in 1..Len(s) : s[k] = x

\* The stored unit with this id lists id c among its children
HasChild(id, c) == Lists(FindOne(t_units, id).children, c)

\* The stored unit with this id lists id p among its parents
HasParent(id, p) == Lists(FindOne(t_units, id).parents, p)

\* C22: after every completed operation the provenance graph is made of
\* mutual back-references: a stored unit is among the children of each of
\* its parents that is stored, and each id among a stored unit's children
\* is a stored unit that lists it as a parent
C22_MutualBackReferences ==
    \A i \in 1..Len(t_units) :
       /\ \A j \in 1..Len(t_units[i].parents) :
             Resolves(t_units, t_units[i].parents[j])
                => HasChild(t_units[i].parents[j], t_units[i].id)
       /\ \A j \in 1..Len(t_units[i].children) :
             /\ Resolves(t_units, t_units[i].children[j])
             /\ HasParent(t_units[i].children[j], t_units[i].id)

\* The entries of a list
Entries(s) == {s[k] : k \in 1..Len(s)}

\* For each stored id, the ids its unit lists as parents, and as children
ParentsOf == [id \in StoredIds(t_units) |-> Entries(FindOne(t_units, id).parents)]
ChildrenOf == [id \in StoredIds(t_units) |-> Entries(FindOne(t_units, id).children)]

\* The ids reached from the set S by following f at most n more times
RECURSIVE Closure(_, _, _)
Closure(f, S, n) ==
    IF n = 0 THEN S
    ELSE CHOOSE T \in {Closure(f, next, n - 1) :
                         next \in {S \cup UNION {f[x] : x \in S \cap DOMAIN f}}} : TRUE

\* The ids reached from a stored id by following f at least once
Reach(f, id) == Closure(f, f[id], Len(t_units))

\* C23: the parent relation over the stored T-units is acyclic: no stored
\* unit is reached from itself by following parents, or by following
\* children, and no unit lists itself as a parent or as a child
C23_ProvenanceAcyclic ==
    \A id \in StoredIds(t_units) :
       /\ id \notin Reach(ParentsOf, id)
       /\ id \notin Reach(ChildrenOf, id)

\* A synthesized unit has an exchanged unit and that unit's original among
\* its parents: the store holds a path of two parent links
C23_Witness ==
    \E i, j \in 1..Len(t_units) :
       /\ t_units[j].linkage = "exchanged"
       /\ Len(t_units[i].parents) = 2
       /\ Lists(t_units[i].parents, t_units[j].id)
       /\ Reach(ParentsOf, t_units[i].id) \cap StoredIds(t_units)
             = {t_units[j].id} \cup Entries(t_units[j].parents)
       /\ Lists(t_units[i].parents, t_units[j].parents[1])

\* C24: in every state, between the steps of an operation and after a crash
\* too, every id in a stored unit's children list is the id of a stored
\* T-unit
C24_ChildrenAreStored ==
    \A i \in 1..Len(t_units) :
       \A k \in 1..Len(t_units[i].children) :
          Resolves(t_units, t_units[i].children[k])

\* Every parent of the stored unit with this id that is stored lists it
\* among its children, in the state a step leads to
ListedByParents(id) ==
    \A k \in 1..Len(FindOne(t_units', id).parents) :
       LET parent == FindOne(t_units', id).parents[k]
       IN  Resolves(t_units', parent) => Lists(FindOne(t_units', parent).children, id)

\* C26: concurrent operations that share a parent lose no child reference:
\* no step of any interleaving takes an entry out of a children list, and
\* when a synthesis or a transformation completes every unit it created is
\* among the children of its parents; so once all have completed the
\* parent's children hold the ids of all the units they created
C26_NoChildReferenceLost ==
    [][/\ \A i \in 1..Len(t_units) :
             IsPrefix(t_units[i].children, t_units'[i].children)
       /\ (Completes("synthesize") \/ Completes("transform"))
             => \A k \in 1..Len(last'.result) :
                   /\ Resolves(t_units', last'.result[k])
                   /\ ListedByParents(last'.result[k])]_vars

\* Two requests that share a parent have completed and the parent lists the
\* unit with the larger id before one with a smaller id: their writes were
\* interleaved
C26_Witness ==
    /\ AllIdle
    /\ Len(events) >= 2
    /\ \E i \in 1..Len(t_units) :
          /\ Len(t_units[i].children) >= 2
          /\ t_units[i].children[1] > t_units[i].children[Len(t_units[i].children)]
          /\ \A k \in 1..Len(t_units[i].children) :
                /\ Resolves(t_units, t_units[i].children[k])
                /\ HasParent(t_units[i].children[k], t_units[i].id)

\* The operations whose rejections the claim names
RejectingOps ==
    {"synthesize", "transform", "suggest_memories", "multi_agent_exchange", "delete_agent"}

\* C25: every rejected operation leaves the store unchanged: a step that
\* answers a synthesize, transform, memory-suggest, exchange or delete_agent
\* request with 400, 404 or 422 changes nothing in t_units, events and agents
C25_RejectionChangesNothing ==
    [][(last'.op \in RejectingOps /\ last'.status \in {400, 404, 422})
          => /\ t_units' = t_units
             /\ events' = events
             /\ agents' = agents]_vars

\* delete_agent was rejected with 400 for an agent that is registered and
\* that a stored T-unit names
C25_Witness ==
    /\ last.op = "delete_agent"
    /\ last.status = 400
    /\ \E i \in 1..Len(agents) : agents[i].id = last.ids[1]
    /\ \E i \in 1..Len(t_units) : t_units[i].agent_id = last.ids[1]

\* C27: the agent delete guard holds under concurrency: a step that removes
\* an agent document is taken only in a state in which no stored T-unit has
\* that agent's id as agent_id
C27_NoDeleteWhileReferenced ==
    [][\A id \in AgentIds :
          Cardinality(AgentDocs(agents', id)) < Cardinality(AgentDocs(agents, id))
             => \A i \in 1..Len(t_units) : t_units[i].agent_id # id]_vars

\* C28: every id in the parents list of a stored unit is the id of a stored
\* T-unit: a synthesis request with an id that does not resolve yields no
\* stored unit that lists that id as a parent
C28_ParentsAreStored ==
    \A i \in 1..Len(t_units) :
       \A k \in 1..Len(t_units[i].parents) :
          Resolves(t_units, t_units[i].parents[k])

\* C29: every stored T-unit has curiosity, certainty and dissonance in
\* [0,1], on the generative path too: a collaborator reply with a dimension
\* outside [0,1] is replaced by the deterministic result
C29_StoredValenceInRange ==
    \A i \in 1..Len(t_units) : ValenceValid(t_units[i].valence)

\* A unit asked of the generative collaborator is stored with the
\* deterministic synthesis content: the reply was discarded
C29_Witness ==
    \E i \in 1..Len(t_units) :
       /\ t_units[i].ai_generated
       /\ t_units[i].content[1] = "SYNTHESIS: "
       /\ ValenceValid(t_units[i].valence)
       /\ last.op = "synthesize"

\* C30: with include_cross_agent = false every suggestion returned by memory
\* suggestion has the agent_id of the request, also when the target unit
\* belongs to another agent; a unit of another agent is returned only with
\* include_cross_agent = true
C30_SuggestionsOfRequestingAgent ==
    Succeeded("suggest_memories") =>
        \A i \in 1..Len(last.result) :
           last.result[i].agent_id # last.request.agent_id
              => last.request.include_cross_agent

\* A request without include_cross_agent whose target belongs to another
\* agent returned a suggestion
C30_Witness ==
    /\ Succeeded("suggest_memories")
    /\ ~last.request.include_cross_agent
    /\ last.target_t_unit.agent_id # last.request.agent_id
    /\ Len(last.result) >= 1

\* A request with include_cross_agent returned a unit of another agent
C30_CrossAgentReturned ==
    /\ Succeeded("suggest_memories")
    /\ last.request.include_cross_agent
    /\ \E i \in 1..Len(last.result) : last.result[i].agent_id # last.request.agent_id

====
